---- MODULE Spec2Model ----
(***************************************************************************)
(* Model of the Step Challenge MCP bridges.                                *)
(*                                                                         *)
(*   step_bridge.py           stdio JSON-RPC relay (specification Spec)    *)
(*   mcp_server_anthropic.py  MCP server built on the mcp library          *)
(*                            (specification SrvSpec)                      *)
(*                                                                         *)
(* JSON and Python values are written as strings.  Absent stands for a key *)
(* that is not in a mapping, Null for JSON null / Python None.             *)
(***************************************************************************)
EXTENDS Integers, Sequences, FiniteSets, TLC

\* ---------------------------------------------------------------- bounds
MaxLines == 2
MaxSrvCalls == 2
MaxAdmCalls == 3
MaxInsRuns == 2

\* ---------------------------------------------------------------- values
Absent == "<absent>"
Null == "null"

\* step_bridge.py line 291: the arguments that ask for the usage text
HelpArgs == {"-h", "--help", "help"}

\* values of the first command line argument that are tried
Argv1Vals == {Absent, "--help"}

\* values of an environment variable holding a token: unset, empty, set
EnvTokenVals == {Absent, "", "mcp_tok"}

\* Python truth value of the strings used here (None and "" are falsy)
Falsy(v) == v \in {Absent, Null, ""}

\* dict.get(key, default) on a member that may be absent
DictGet(v, default) == IF v = Absent THEN default ELSE v

\* ------------------------------------------------------- request values
Methods ==
  {"initialize", "tools/list", "tools/call", "add_steps", "get_steps",
   "get_user_profile", "bogus", Absent}
LegacyMethods == {"add_steps", "get_steps", "get_user_profile"}
McpMethods == {"initialize", "tools/list", "tools/call"}
IdVals == {Absent, "7"}

ArgsOverwrite == "{date:2025-07-30,count:5000,allow_overwrite:true}"

\* params member of a request: absent, null, a list, or a mapping
MkParams(t, name, arguments) == [t |-> t, name |-> name, arguments |-> arguments]
ParamsAbsent == MkParams(Absent, Absent, Absent)
ParamsList == MkParams("list", Absent, Absent)
EmptyDict == MkParams("dict", Absent, Absent)
ParamVals ==
  { ParamsAbsent, ParamsList, EmptyDict,
    MkParams("dict", Null, Absent),
    MkParams("dict", "", "{}"),
    MkParams("dict", "get_user_profile", "{}"),
    MkParams("dict", "add_steps", ArgsOverwrite) }

MkRequest(method, params, id) == [method |-> method, params |-> params, id |-> id]
NoRequest == MkRequest(Absent, ParamsAbsent, Absent)
Requests == { MkRequest(m, p, i) : m \in Methods, p \in ParamVals, i \in IdVals }

\* an input line: blank, not JSON, JSON that is not an object, or an object
MkLine(kind, obj) == [kind |-> kind, obj |-> obj]
Lines ==
  { MkLine("blank", NoRequest), MkLine("nonjson", NoRequest), MkLine("nonobject", NoRequest) }
  \cup { MkLine("object", r) : r \in Requests }

\* ------------------------------------------------------ response values
NoError == [code |-> 0, message |-> Absent, data |-> Absent]
MkError(code, message, data) == [code |-> code, message |-> message, data |-> data]

\* one line of stdout: a JSON-RPC response object or plain text
ErrorResponse_WithResult(code, message, data, id) ==
  [jsonrpc |-> "2.0", result |-> "{}", error |-> MkError(code, message, data),
   id |-> id, text |-> Absent]
ErrorResponse(code, message, data, id) ==
  [jsonrpc |-> "2.0", result |-> Absent, error |-> MkError(code, message, data),
   id |-> id, text |-> Absent]
ResultResponse(result, id) ==
  [jsonrpc |-> "2.0", result |-> result, error |-> NoError, id |-> id, text |-> Absent]
TextLine(s) ==
  [jsonrpc |-> Absent, result |-> Absent, error |-> NoError, id |-> Absent, text |-> s]
NoResponse == TextLine(Absent)
IsJsonLine(l) == l.text = Absent /\ l.jsonrpc # Absent

\* ------------------------------------------------- remote endpoint values
\* body of a reply: t is dict, list or html (not JSON); a dict has optional
\* members result and error, and the error has a message and an optional
\* member data.
\* The bodies tried are a result, an error with data and one without
MkBody(t, result, has_error, err_message, err_data) ==
  [t |-> t, result |-> result, has_error |-> has_error, err_message |-> err_message,
   err_data |-> err_data]
NoBody == MkBody(Absent, Absent, FALSE, Absent, Absent)
Bodies ==
  { MkBody("dict", "{ok:true}", FALSE, Absent, Absent),
    MkBody("dict", Absent, TRUE, "Invalid params", "Step count too high"),
    MkBody("dict", Absent, TRUE, "Invalid token", Absent) }

\* what the POST does: an HTTP reply, a aiohttp.ClientError, or a timeout
MkOutcome(k, status, body, text) == [k |-> k, status |-> status, body |-> body, text |-> text]
Outcomes ==
  { MkOutcome("http", 200, b, "") : b \in Bodies }
  \cup { MkOutcome("http", 500, NoBody, "Internal Server Error"),
         MkOutcome("client_error", 0, NoBody, "Cannot connect to host"),
         MkOutcome("timeout", 0, NoBody, "") }


\* ================================================= step_bridge.py: state
VARIABLES
  env_token,    \* STEP_TOKEN in the environment
  argv1,        \* sys.argv[1], Absent when there is none
  py_old,       \* sys.version_info < (3, 7)
  pc,           \* where the process is: start, read, http_wait,
                \* print_error, print, finally, exited
  token,        \* StepChallengeMCPBridge.token
  session,      \* StepChallengeMCPBridge.session: none, open, closed
  request,      \* the request handle_request is working on
  response,     \* the response about to be printed
  pending_exc,  \* exception propagating out of run(), Absent when none
  stdout,       \* lines written to stdout
  stderr,       \* lines written to stderr
  exit_code,    \* -1 while running
  http_log,     \* outbound POSTs in order
  http_replies, \* what each POST came back with, in order
  stdin_log,    \* summary of the lines read so far
  stdin_eof     \* readline has returned the empty string

bridgeVars ==
  <<env_token, argv1, py_old, pc, token, session, request, response,
    pending_exc, stdout, stderr, exit_code, http_log, http_replies, stdin_log,
    stdin_eof>>

\* ------------------------------------------------------------ constants
MCP_ENDPOINT == "https://step-app-4x-yhw.fly.dev/mcp"
TOOLS == <<"add_steps", "get_steps", "get_user_profile">>

\* --------------------------------------------------------- pure helpers
\* str() / f-string formatting of a value: None prints as None
PyStr(v) == IF v \in {Null, Absent} THEN "None" ELSE v

\* value a Python call produces: an exception with its str(), or a result
Raise(msg) == [raised |-> TRUE, msg |-> msg, ret |-> Absent]
Return(v) == [raised |-> FALSE, msg |-> Absent, ret |-> v]
RaiseApi(msg) == [raised |-> TRUE, msg |-> msg, ret |-> NoBody]
ReturnApi(b) == [raised |-> FALSE, msg |-> Absent, ret |-> b]

\* mutant: the id of the outbound payload is used
RequestId_Outbound(req) == "1"

\* mutant: a request without id gets the number of the response as its id
RequestId_Sequence(req) ==
  IF req.id = Absent THEN ToString(Len(stdout) + 1) ELSE req.id

\* request.get("id")
RequestId(req) == DictGet(req.id, Null)

\* request.get("params", {})
RequestParams(req) == IF req.params.t = Absent THEN EmptyDict ELSE req.params

\* the payload and headers make_api_request posts
ApiPayload(tok, method, params) ==
  [url |-> MCP_ENDPOINT, authorization |-> "Bearer " \o tok, method |-> method,
   name |-> params.name, arguments |-> params.arguments, id |-> "1"]

\* make_api_request from the reply on: what it returns or raises
MakeApiRequestReturn(o) ==
  IF o.k = "client_error"
    THEN ReturnApi(MkBody("dict", Absent, TRUE, "Server error", "Network error: " \o o.text))
  ELSE IF o.k = "timeout"
    THEN RaiseApi("")
  ELSE IF o.status # 200
    THEN ReturnApi(MkBody("dict", Absent, TRUE, "Server error",
                          "HTTP " \o ToString(o.status) \o ": " \o o.text))
  ELSE IF o.body.t = "html"
    THEN ReturnApi(MkBody("dict", Absent, TRUE, "Server error",
                          "Network error: Attempt to decode JSON with unexpected mimetype"))
  ELSE ReturnApi(o.body)

\* mutant: the result is looked up under another key
HandleToolsCallReturn_WrongKey(api) ==
  IF api.raised THEN Raise(api.msg)
  ELSE IF api.ret.t # "dict" THEN Raise("'list' object has no attribute 'get'")
  ELSE IF api.ret.has_error
    THEN IF api.ret.err_data = Absent THEN Raise("'data'")
         ELSE Raise(PyStr(api.ret.err_data))
  ELSE Return("{}")

\* handle_tools_call from the answer of make_api_request on
HandleToolsCallReturn(api) ==
  IF api.raised THEN Raise(api.msg)
  ELSE IF api.ret.t # "dict" THEN Raise("'list' object has no attribute 'get'")
  ELSE IF api.ret.has_error
    THEN IF api.ret.err_data = Absent THEN Raise("'data'")
         ELSE Raise(PyStr(api.ret.err_data))
  ELSE Return(DictGet(api.ret.result, "{}"))

\* handle_initialize
HandleInitialize(params) ==
  "{protocolVersion:2025-03-26,capabilities:{tools:{}},serverInfo:{name:Step Challenge MCP Bridge,version:1.0.0}}"

\* mutant: the list is narrowed to the tool named in params
HandleToolsList_Filtered(params) ==
  IF params.t = "dict" /\ params.name \in {TOOLS[1], TOOLS[2], TOOLS[3]}
    THEN "{tools:[" \o params.name \o "]}"
  ELSE "{tools:[" \o TOOLS[1] \o "," \o TOOLS[2] \o "," \o TOOLS[3] \o "]}"

\* handle_tools_list
HandleToolsList(params) ==
  "{tools:[" \o TOOLS[1] \o "," \o TOOLS[2] \o "," \o TOOLS[3] \o "]}"

\* mutant: an exception is reported as InternalError
HandlerResponse_InternalError(r, request_id) ==
  IF r.raised THEN ErrorResponse(-32603, "Internal error", r.msg, request_id)
  ELSE ResultResponse(r.ret, request_id)

\* handle_request: the response built from what the handler returned or raised
HandlerResponse(r, request_id) ==
  IF r.raised THEN ErrorResponse(-32000, "Server error", r.msg, request_id)
  ELSE ResultResponse(r.ret, request_id)

\* mutant: the error does not name the method
MethodNotFoundResponse_NoName(method, request_id) ==
  ErrorResponse(-32601, "Method not found", "Unknown method", request_id)

\* mutant: a flat method name is taken for the tool of a tools/call that
\* came back with an empty result
MethodNotFoundResponse_FlatAsTool(method, request_id) ==
  IF method \in LegacyMethods THEN ResultResponse("{}", request_id)
  ELSE ErrorResponse(-32601, "Method not found", "Unknown method: " \o PyStr(method),
                     request_id)

\* handle_request: the else branch of the dispatch
MethodNotFoundResponse(method, request_id) ==
  ErrorResponse(-32601, "Method not found", "Unknown method: " \o PyStr(method), request_id)

\* mutant: the line is reported as InvalidRequest
ParseErrorResponse_InvalidRequest ==
  ErrorResponse(-32600, "Invalid Request", "Expecting value: line 1 column 1 (char 0)", Null)

\* run: the response to a line json.loads rejects
ParseErrorResponse ==
  ErrorResponse(-32700, "Parse error", "Expecting value: line 1 column 1 (char 0)", Null)

\* mutant: the name is not checked
HandleToolsCallPre_NoNameCheck(params) ==
  IF params.t # "dict"
    THEN Raise(IF params.t = "null" THEN "'NoneType' object has no attribute 'get'"
               ELSE "'list' object has no attribute 'get'")
  ELSE Return(Absent)

\* handle_tools_call up to the call of make_api_request: the exception it
\* raises, or no exception when the request goes out
HandleToolsCallPre(params) ==
  IF params.t # "dict"
    THEN Raise(IF params.t = "null" THEN "'NoneType' object has no attribute 'get'"
               ELSE "'list' object has no attribute 'get'")
  ELSE IF Falsy(params.name) THEN Raise("Tool name is required")
  ELSE Return(Absent)

\* mutant: overwriting is switched on in what is forwarded
ForwardedParams_ForceOverwrite(params) ==
  MkParams("dict", params.name, ArgsOverwrite)

\* the params handle_tools_call forwards
ForwardedParams(params) ==
  MkParams("dict", params.name, DictGet(params.arguments, "{}"))

LogEntry(l) == [kind |-> l.kind, method |-> l.obj.method, id |-> l.obj.id]

\* ============================================== step_bridge.py: actions
BridgeInit ==
  /\ env_token \in EnvTokenVals
  /\ argv1 \in Argv1Vals
  /\ py_old \in BOOLEAN
  /\ pc = "start"
  /\ token = Absent
  /\ session = "none"
  /\ request = NoRequest
  /\ response = NoResponse
  /\ pending_exc = Absent
  /\ stdout = <<>>
  /\ stderr = <<>>
  /\ exit_code = -1
  /\ http_log = <<>>
  /\ http_replies = <<>>
  /\ stdin_log = <<>>
  /\ stdin_eof = FALSE

\* the usage text of the help branch
HelpText ==
  << TextLine("Step Challenge MCP Bridge"),
     TextLine("Usage: STEP_TOKEN=your_token python step_bridge.py"),
     TextLine(""),
     TextLine("Environment Variables:"),
     TextLine("  STEP_TOKEN    Your Step Challenge MCP token (required)"),
     TextLine(""),
     TextLine("Example:"),
     TextLine("  STEP_TOKEN=mcp_abc123... python step_bridge.py"),
     TextLine(""),
     TextLine("Get your token from: https://step-app-4x-yhw.fly.dev/mcp-setup") >>

\* __main__: the Python version check fails
StartOldPython ==
  /\ pc = "start"
  /\ py_old
  /\ stderr' = Append(stderr, "Error: Python 3.7 or higher is required")
  /\ exit_code' = 1
  /\ pc' = "exited"
  /\ UNCHANGED <<env_token, argv1, py_old, token, session, request,
                 response, pending_exc, stdout, http_log, stdin_log,
                 http_replies, stdin_eof>>

\* __main__: the help branch
StartHelp ==
  /\ pc = "start"
  /\ ~py_old
  /\ argv1 \in HelpArgs
  /\ stdout' = stdout \o HelpText
  /\ exit_code' = 0
  /\ pc' = "exited"
  /\ UNCHANGED <<env_token, argv1, py_old, token, session, request,
                 response, pending_exc, stderr, http_log, stdin_log,
                 http_replies, stdin_eof>>

\* __main__: the check for the required token fails
StartNoToken ==
  /\ pc = "start"
  /\ ~py_old
  /\ argv1 \notin HelpArgs
  /\ Falsy(env_token)
  /\ stderr' = stderr \o
       << "Error: STEP_TOKEN environment variable is required", "", "Usage:",
          "  STEP_TOKEN=your_token_here python step_bridge.py", "",
          "Get your token from: https://step-app-4x-yhw.fly.dev/mcp-setup" >>
  /\ exit_code' = 1
  /\ pc' = "exited"
  /\ UNCHANGED <<env_token, argv1, py_old, token, session, request,
                 response, pending_exc, stdout, http_log, stdin_log,
                 http_replies, stdin_eof>>

\* mutant: main() is run without the check for the token
StartRun_NoTokenCheck ==
  /\ pc = "start"
  /\ ~py_old
  /\ argv1 \notin HelpArgs
  /\ token' = env_token
  /\ session' = "none"
  /\ pc' = "read"
  /\ UNCHANGED <<env_token, argv1, py_old, request, response,
                 pending_exc, stdout, stderr, exit_code, http_log, stdin_log,
                 http_replies, stdin_eof>>

\* mutant: a banner is printed to stdout before the loop
StartRun_Banner ==
  /\ pc = "start"
  /\ ~py_old
  /\ argv1 \notin HelpArgs
  /\ ~Falsy(env_token)
  /\ token' = env_token
  /\ session' = "none"
  /\ stdout' = Append(stdout, TextLine("Starting Step Challenge MCP Bridge..."))
  /\ pc' = "read"
  /\ UNCHANGED <<env_token, argv1, py_old, request, response,
                 pending_exc, stderr, exit_code, http_log, stdin_log,
                 http_replies, stdin_eof>>

\* __main__ runs main(): the bridge is constructed and run() reaches readline
StartRun ==
  /\ pc = "start"
  /\ ~py_old
  /\ argv1 \notin HelpArgs
  /\ ~Falsy(env_token)
  /\ token' = env_token
  /\ session' = "none"
  /\ pc' = "read"
  /\ UNCHANGED <<env_token, argv1, py_old, request, response,
                 pending_exc, stdout, stderr, exit_code, http_log, stdin_log,
                 http_replies, stdin_eof>>

\* handle_request, up to its return or to the POST of make_api_request
HandleRequest(l) ==
  IF l.kind = "nonobject"
    THEN \* request.get raises AttributeError outside the try
         /\ pending_exc' = "'list' object has no attribute 'get'"
         /\ pc' = "finally"
         /\ UNCHANGED <<request, response, session, http_log>>
    ELSE LET method == DictGet(l.obj.method, Null)
             params == RequestParams(l.obj)
             request_id == RequestId(l.obj)
             pre == HandleToolsCallPre(params)
         IN  /\ request' = l.obj
             /\ UNCHANGED pending_exc
             /\ IF method = "initialize"
                  THEN /\ response' = HandlerResponse(Return(HandleInitialize(params)),
                                                      request_id)
                       /\ pc' = "print"
                       /\ UNCHANGED <<session, http_log>>
                ELSE IF method = "tools/list"
                  THEN /\ response' = HandlerResponse(Return(HandleToolsList(params)),
                                                      request_id)
                       /\ pc' = "print"
                       /\ UNCHANGED <<session, http_log>>
                ELSE IF method = "tools/call"
                  THEN IF pre.raised
                         THEN /\ response' = HandlerResponse(pre, request_id)
                              /\ pc' = "print"
                              /\ UNCHANGED <<session, http_log>>
                         ELSE \* make_api_request: create_session, then the POST
                              /\ session' = IF session = "none" THEN "open" ELSE session
                              /\ http_log' = Append(http_log,
                                   ApiPayload(token, "tools/call", ForwardedParams(params)))
                              /\ pc' = "http_wait"
                              /\ UNCHANGED response
                ELSE /\ response' = MethodNotFoundResponse(method, request_id)
                     /\ pc' = "print"
                     /\ UNCHANGED <<session, http_log>>

\* run: strip, skip a blank line, json.loads, then handle_request
ParseLine(l) ==
  IF l.kind = "blank"
    THEN /\ pc' = "read"
         /\ UNCHANGED <<request, response, pending_exc, session, http_log>>
  ELSE IF l.kind = "nonjson"
    THEN /\ response' = ParseErrorResponse
         /\ pc' = "print_error"
         /\ UNCHANGED <<request, pending_exc, session, http_log>>
  ELSE HandleRequest(l)

\* mutant: the next line is read while the response is still to be printed
ReadLine_Prefetch ==
  /\ pc \in {"read", "print"}
  /\ Len(stdin_log) < MaxLines
  /\ \E l \in Lines :
       /\ stdin_log' = Append(stdin_log, LogEntry(l))
       /\ ParseLine(l)
  /\ UNCHANGED <<env_token, argv1, py_old, token, stdout, stderr, exit_code,
                 http_replies, stdin_eof>>

\* run: readline returns a line, which is worked on up to the next await
ReadLine ==
  /\ pc = "read"
  /\ Len(stdin_log) < MaxLines
  /\ \E l \in Lines :
       /\ stdin_log' = Append(stdin_log, LogEntry(l))
       /\ ParseLine(l)
  /\ UNCHANGED <<env_token, argv1, py_old, token, stdout, stderr, exit_code,
                 http_replies, stdin_eof>>

\* run: readline returns the empty string at end of file, the loop breaks
ReadEOF ==
  /\ pc = "read"
  /\ stdin_eof' = TRUE
  /\ pc' = "finally"
  /\ UNCHANGED <<env_token, argv1, py_old, token, session, request, response,
                 pending_exc, stdout, stderr, exit_code, http_log, stdin_log,
                 http_replies>>

\* run: print of the parse error, then continue
PrintParseError_Break ==
  /\ pc = "print_error"
  /\ stdout' = Append(stdout, response)
  /\ response' = NoResponse
  /\ pc' = "finally"
  /\ UNCHANGED <<env_token, argv1, py_old, token, session, request,
                 pending_exc, stderr, exit_code, http_log, stdin_log,
                 http_replies, stdin_eof>>
PrintParseError ==
  /\ pc = "print_error"
  /\ stdout' = Append(stdout, response)
  /\ response' = NoResponse
  /\ pc' = "read"
  /\ UNCHANGED <<env_token, argv1, py_old, token, session, request,
                 pending_exc, stderr, exit_code, http_log, stdin_log,
                 http_replies, stdin_eof>>

\* the POST completes: rest of make_api_request, handle_tools_call and
\* handle_request
HttpReply_Retry ==
  /\ pc = "http_wait"
  /\ \E o \in Outcomes :
       /\ http_replies' = Append(http_replies, o)
       /\ IF (o.k # "http" \/ o.status # 200 \/ o.body.has_error) /\ http_replies = <<>>
            THEN /\ http_log' = Append(http_log, http_log[Len(http_log)])
                 /\ pc' = "http_wait"
                 /\ UNCHANGED response
            ELSE /\ response' = HandlerResponse(
                                  HandleToolsCallReturn(MakeApiRequestReturn(o)),
                                  RequestId(request))
                 /\ pc' = "print"
                 /\ UNCHANGED http_log
  /\ UNCHANGED <<env_token, argv1, py_old, token, session, request,
                 pending_exc, stdout, stderr, exit_code, stdin_log,
                 stdin_eof>>
\* mutant: the session has no timeout
HttpReply_NoTimeout ==
  /\ pc = "http_wait"
  /\ \E o \in {x \in Outcomes : x.k # "timeout"} :
       /\ http_replies' = Append(http_replies, o)
       /\ response' = HandlerResponse(HandleToolsCallReturn(MakeApiRequestReturn(o)),
                                      RequestId(request))
  /\ pc' = "print"
  /\ UNCHANGED <<env_token, argv1, py_old, token, session, request,
                 pending_exc, stdout, stderr, exit_code, http_log, stdin_log,
                 stdin_eof>>
HttpReply ==
  /\ pc = "http_wait"
  /\ \E o \in Outcomes :
       /\ http_replies' = Append(http_replies, o)
       /\ response' = HandlerResponse(HandleToolsCallReturn(MakeApiRequestReturn(o)),
                                      RequestId(request))
  /\ pc' = "print"
  /\ UNCHANGED <<env_token, argv1, py_old, token, session, request,
                 pending_exc, stdout, stderr, exit_code, http_log, stdin_log,
                 stdin_eof>>

\* run: print of the response, back to the top of the loop
PrintResponse ==
  /\ pc = "print"
  /\ stdout' = Append(stdout, response)
  /\ response' = NoResponse
  /\ request' = NoRequest
  /\ pc' = "read"
  /\ UNCHANGED <<env_token, argv1, py_old, token, session, pending_exc, stderr,
                 exit_code, http_log, stdin_log, http_replies, stdin_eof>>

\* mutant: the finally clause leaves the session as it is
Finally_LeaveOpen ==
  /\ pc = "finally"
  /\ IF pending_exc = Absent
       THEN /\ exit_code' = 0
            /\ UNCHANGED stderr
       ELSE /\ exit_code' = 1
            /\ stderr' = Append(stderr, "Fatal error: " \o pending_exc)
  /\ pc' = "exited"
  /\ UNCHANGED <<env_token, argv1, py_old, token, session, request, response,
                 pending_exc, stdout, http_log, stdin_log, http_replies,
                 stdin_eof>>

\* run: the finally clause closes the session; then __main__ ends the
\* process, with code 1 and a message on stderr when an exception came out
Finally ==
  /\ pc = "finally"
  /\ session' = IF session = "open" THEN "closed" ELSE session
  /\ IF pending_exc = Absent
       THEN /\ exit_code' = 0
            /\ UNCHANGED stderr
       ELSE /\ exit_code' = 1
            /\ stderr' = Append(stderr, "Fatal error: " \o pending_exc)
  /\ pc' = "exited"
  /\ UNCHANGED <<env_token, argv1, py_old, token, request, response,
                 pending_exc, stdout, http_log, stdin_log, http_replies,
                 stdin_eof>>

\* ======================================== mcp_server_anthropic.py: state
VARIABLES
  srv_env_token,  \* STEP_CHALLENGE_TOKEN in the environment
  srv_pc,         \* import, main, serving, exited
  step_client,    \* the module level client: Null, or the token it holds
  srv_stdout,     \* lines written to stdout
  srv_exit,       \* exit status, -1 while running
  srv_http,       \* outbound POSTs in order
  srv_reply,      \* what requests.post did for the request served last
  srv_request,    \* the request served last: its kind, name or uri, arguments
  srv_served      \* number of requests served

srvVars ==
  <<srv_env_token, srv_pc, step_client, srv_stdout, srv_exit, srv_http, srv_reply,
    srv_request, srv_served>>

\* ------------------------------------------------------- server values
SrvToolNames == {"add_steps", "get_steps", "get_step_summary", "check_daily_goal", "bogus"}
SrvUris == {"step-challenge://profile", "step-challenge://steps/recent", "step-challenge://bogus"}

\* arguments of a tool call: None or a mapping with optional members
MkArgs(t, date, count, allow_overwrite) ==
  [t |-> t, date |-> date, count |-> count, allow_overwrite |-> allow_overwrite]
SrvArgVals ==
  { MkArgs("none", Absent, Absent, Absent),
    MkArgs("dict", Absent, Absent, Absent),
    MkArgs("dict", "2025-07-30", "5000", Absent),
    MkArgs("dict", "2025-07-30", "5000", "true"),
    MkArgs("dict", "2025-07-30", Absent, "false") }

\* a request the mcp library hands to a handler
MkSrvRequest(kind, name, arguments) == [kind |-> kind, name |-> name, arguments |-> arguments]
NoArgs == MkArgs(Absent, Absent, Absent, Absent)
NoSrvRequest == MkSrvRequest(Absent, Absent, NoArgs)

\* what _call_api returns: a mapping with optional members result and
\* error; the error has optional members message and data.  result is the
\* shape of the remote result: full (the members the handler reads, with
\* data), empty (no step data) or odd (another shape)
MkApi(result, has_error, err_message, err_data) ==
  [result |-> result, has_error |-> has_error, err_message |-> err_message,
   err_data |-> err_data]
SrvBodies ==
  { MkApi("full", FALSE, Absent, Absent),
    MkApi("empty", FALSE, Absent, Absent),
    MkApi("odd", FALSE, Absent, Absent),
    MkApi(Absent, TRUE, "Invalid params", "Step count too high"),
    MkApi(Absent, TRUE, "Invalid token", Absent) }

\* what requests.post does: a reply with a status and a JSON body, a reply
\* whose body is not JSON, a connection error or a timeout
MkSrvOutcome(k, status, body, text) ==
  [k |-> k, status |-> status, body |-> body, text |-> text]
NoApi == MkApi(Absent, FALSE, Absent, Absent)
NoSrvOutcome == MkSrvOutcome("none", 0, NoApi, "")
SrvOutcomes ==
  { MkSrvOutcome("http", 200, b, "") : b \in SrvBodies }
  \cup { MkSrvOutcome("http", 500, NoApi,
                      "500 Server Error: Internal Server Error for url"),
         MkSrvOutcome("notjson", 200, NoApi, "Expecting value: line 1 column 1 (char 0)"),
         MkSrvOutcome("exception", 0, NoApi, "Connection refused"),
         MkSrvOutcome("exception", 0, NoApi, "Read timed out. (read timeout=10)") }

\* --------------------------------------------------- server pure helpers
\* StepChallengeClient._call_api: the params it posts
SrvPayload(tok, method, params) ==
  [url |-> "/mcp/rpc", method |-> method, params |-> params, token |-> tok, timeout |-> 10]

\* StepChallengeClient._call_api: what it returns for an outcome of the POST
SrvCallApi(o) ==
  IF o.k = "http" /\ o.status < 400 THEN o.body
  ELSE MkApi(Absent, TRUE, "API call failed: " \o o.text, Absent)

\* result.get("error", {}).get("data", "Unknown error")
SrvErrorData(api) ==
  IF api.has_error THEN DictGet(api.err_data, "Unknown error") ELSE "Unknown error"

\* handle_call_tool: the params of the POST, NoPost when the branch makes none
NoPost == [method |-> Absent, date |-> Absent, count |-> Absent,
           allow_overwrite |-> Absent, range |-> Absent]
\* mutant: a name that is not known is posted as a method
SrvToolPost_UnknownPosts(name, arguments) ==
  IF name = "add_steps"
    THEN IF arguments.date = Absent \/ arguments.count = Absent THEN NoPost
         ELSE [method |-> "add_steps", date |-> arguments.date, count |-> arguments.count,
               allow_overwrite |-> DictGet(arguments.allow_overwrite, "false"),
               range |-> Absent]
  ELSE IF name = "get_steps"
    THEN [method |-> "get_steps", date |-> Absent, count |-> Absent,
          allow_overwrite |-> Absent, range |-> Absent]
  ELSE IF name = "get_step_summary"
    THEN [method |-> "get_steps", date |-> Absent, count |-> Absent,
          allow_overwrite |-> Absent, range |-> "last 7 days"]
  ELSE IF name = "check_daily_goal" THEN NoPost
  ELSE [method |-> name, date |-> Absent, count |-> Absent,
        allow_overwrite |-> Absent, range |-> Absent]

\* handle_call_tool: the params of the POST
SrvToolPost(name, arguments) ==
  IF name = "add_steps"
    THEN IF arguments.date = Absent \/ arguments.count = Absent THEN NoPost
         ELSE [method |-> "add_steps", date |-> arguments.date, count |-> arguments.count,
               allow_overwrite |-> DictGet(arguments.allow_overwrite, "false"),
               range |-> Absent]
  ELSE IF name = "get_steps"
    THEN [method |-> "get_steps", date |-> Absent, count |-> Absent,
          allow_overwrite |-> Absent, range |-> Absent]
  ELSE IF name = "get_step_summary"
    THEN [method |-> "get_steps", date |-> Absent, count |-> Absent,
          allow_overwrite |-> Absent, range |-> "last 7 days"]
  ELSE NoPost

\* handle_call_tool with a client: the text it returns
SrvToolText(name, arguments, api) ==
  IF name = "add_steps"
    THEN IF arguments.date = Absent THEN "Tool execution failed: 'date'"
         ELSE IF arguments.count = Absent THEN "Tool execution failed: 'count'"
         ELSE IF api.result = "full" THEN "Successfully added 5000 steps for 2025-07-30"
         ELSE IF api.result # Absent THEN "Tool execution failed: 'count'"
         ELSE "Failed to add steps: " \o SrvErrorData(api)
  ELSE IF name = "get_steps"
    THEN IF api.result = "full" THEN "Retrieved 1 days of step data"
         ELSE IF api.result = "empty" THEN "No step data found for the specified period"
         ELSE IF api.result # Absent THEN "Tool execution failed: 'steps'"
         ELSE "Failed to get steps: " \o SrvErrorData(api)
  ELSE IF name = "get_step_summary"
    THEN IF api.result = "full" THEN "7-Day Step Summary"
         ELSE IF api.result = "empty" THEN "No step data found for the last 7 days"
         ELSE IF api.result # Absent THEN "Tool execution failed: 'steps'"
         ELSE "Failed to get step summary: " \o SrvErrorData(api)
  ELSE IF name = "check_daily_goal"
    THEN \* datetime is a local of handle_call_tool (import in another branch)
         "Tool execution failed: cannot access local variable 'datetime' where it is not associated with a value"
  ELSE "Unknown tool: " \o name

\* f-string formatting of the error member of what _call_api returned
SrvErrorRepr(api) ==
  IF ~api.has_error THEN "Unknown error"
  ELSE IF api.err_data = Absent THEN "{'message': '" \o api.err_message \o "'}"
  ELSE "{'message': '" \o api.err_message \o "', 'data': '" \o api.err_data \o "'}"

\* handle_read_resource with a client: the method it posts, Absent for none
SrvResourcePost(uri) ==
  IF uri = "step-challenge://profile" THEN "get_user_profile"
  ELSE IF uri = "step-challenge://steps/recent" THEN "get_steps"
  ELSE Absent

\* handle_read_resource with a client: the text it returns
SrvResourceText(uri, api) ==
  IF uri = "step-challenge://profile"
    THEN IF api.result # Absent THEN "User Profile: " \o api.result
         ELSE "Error getting profile: " \o SrvErrorRepr(api)
  ELSE IF uri = "step-challenge://steps/recent"
    THEN IF api.result # Absent THEN "Recent Steps: " \o api.result
         ELSE "Error getting steps: " \o SrvErrorRepr(api)
  ELSE "Unknown resource: " \o uri

TokenNotConfigured == "Error: Step Challenge token not configured"

\* ===================================== mcp_server_anthropic.py: actions
SrvInit ==
  /\ srv_env_token \in EnvTokenVals
  /\ srv_pc = "import"
  /\ step_client = Null
  /\ srv_stdout = <<>>
  /\ srv_exit = -1
  /\ srv_http = <<>>
  /\ srv_reply = NoSrvOutcome
  /\ srv_request = NoSrvRequest
  /\ srv_served = 0

\* mutant: a missing token ends the process with status 1
SrvImport_ExitOnMissing ==
  /\ srv_pc = "import"
  /\ IF Falsy(srv_env_token)
       THEN /\ srv_pc' = "exited"
            /\ srv_exit' = 1
            /\ UNCHANGED <<step_client, srv_stdout>>
       ELSE /\ step_client' = srv_env_token
            /\ srv_pc' = "main"
            /\ UNCHANGED <<srv_stdout, srv_exit>>
  /\ UNCHANGED <<srv_env_token, srv_http, srv_reply, srv_request, srv_served>>

\* module level: the token is read and the client is created, or a warning
\* is printed and step_client is None
SrvImport ==
  /\ srv_pc = "import"
  /\ IF Falsy(srv_env_token)
       THEN /\ srv_stdout' = Append(srv_stdout,
                 TextLine("Warning: STEP_CHALLENGE_TOKEN environment variable not set"))
            /\ step_client' = Null
       ELSE /\ step_client' = srv_env_token
            /\ UNCHANGED srv_stdout
  /\ srv_pc' = "main"
  /\ UNCHANGED <<srv_env_token, srv_exit, srv_http, srv_reply, srv_request, srv_served>>

\* __main__: the banner, the warning, then asyncio.run(main()) serves stdio
SrvMain ==
  /\ srv_pc = "main"
  /\ srv_stdout' = srv_stdout
       \o << TextLine("Starting Step Challenge MCP Server...") >>
       \o (IF Falsy(srv_env_token)
             THEN << TextLine("Warning: STEP_CHALLENGE_TOKEN environment variable not set"),
                     TextLine("Set it to your MCP token from get_mcp_token.py") >>
             ELSE << >>)
  /\ srv_pc' = "serving"
  /\ UNCHANGED <<srv_env_token, step_client, srv_exit, srv_http, srv_reply,
                 srv_request, srv_served>>

\* mutant: the tool name is looked at before the client
SrvCallTool_NameFirst ==
  /\ srv_pc = "serving"
  /\ srv_served < MaxSrvCalls
  /\ \E name \in SrvToolNames, arguments \in SrvArgVals, o \in SrvOutcomes :
       LET args == IF arguments.t = "none" THEN MkArgs("dict", Absent, Absent, Absent)
                   ELSE arguments
           post == SrvToolPost(name, args)
           id == ToString(srv_served + 1)
       IN  /\ srv_request' = MkSrvRequest("tool", name, arguments)
           /\ IF step_client = Null /\ name \in SrvToolNames \ {"bogus"}
                THEN /\ srv_stdout' = Append(srv_stdout,
                          ResultResponse(TokenNotConfigured, id))
                     /\ srv_reply' = NoSrvOutcome
                     /\ UNCHANGED srv_http
              ELSE IF post = NoPost \/ step_client = Null
                THEN /\ srv_stdout' = Append(srv_stdout,
                          ResultResponse(SrvToolText(name, args, NoApi), id))
                     /\ srv_reply' = NoSrvOutcome
                     /\ UNCHANGED srv_http
              ELSE /\ srv_http' = Append(srv_http,
                        SrvPayload(step_client, post.method, post))
                   /\ srv_reply' = o
                   /\ srv_stdout' = Append(srv_stdout,
                        ResultResponse(SrvToolText(name, args, SrvCallApi(o)), id))
  /\ srv_served' = srv_served + 1
  /\ UNCHANGED <<srv_env_token, srv_pc, step_client, srv_exit>>

\* handle_call_tool, and the response the mcp library writes for it
SrvCallTool ==
  /\ srv_pc = "serving"
  /\ srv_served < MaxSrvCalls
  /\ \E name \in SrvToolNames, arguments \in SrvArgVals, o \in SrvOutcomes :
       LET args == IF arguments.t = "none" THEN MkArgs("dict", Absent, Absent, Absent)
                   ELSE arguments
           post == SrvToolPost(name, args)
           id == ToString(srv_served + 1)
       IN  /\ srv_request' = MkSrvRequest("tool", name, arguments)
           /\ IF step_client = Null
                THEN /\ srv_stdout' = Append(srv_stdout,
                          ResultResponse(TokenNotConfigured, id))
                     /\ srv_reply' = NoSrvOutcome
                     /\ UNCHANGED srv_http
              ELSE IF post = NoPost
                THEN /\ srv_stdout' = Append(srv_stdout,
                          ResultResponse(SrvToolText(name, args, NoApi), id))
                     /\ srv_reply' = NoSrvOutcome
                     /\ UNCHANGED srv_http
              ELSE /\ srv_http' = Append(srv_http,
                        SrvPayload(step_client, post.method, post))
                   /\ srv_reply' = o
                   /\ srv_stdout' = Append(srv_stdout,
                        ResultResponse(SrvToolText(name, args, SrvCallApi(o)), id))
  /\ srv_served' = srv_served + 1
  /\ UNCHANGED <<srv_env_token, srv_pc, step_client, srv_exit>>

\* handle_read_resource, and the response the mcp library writes for it
SrvReadResource ==
  /\ srv_pc = "serving"
  /\ srv_served < MaxSrvCalls
  /\ \E uri \in SrvUris, o \in SrvOutcomes :
       LET method == SrvResourcePost(uri)
           id == ToString(srv_served + 1)
       IN  /\ srv_request' = MkSrvRequest("resource", uri, NoArgs)
           /\ IF step_client = Null
                THEN /\ srv_stdout' = Append(srv_stdout,
                          ResultResponse(TokenNotConfigured, id))
                     /\ srv_reply' = NoSrvOutcome
                     /\ UNCHANGED srv_http
              ELSE IF method = Absent
                THEN /\ srv_stdout' = Append(srv_stdout,
                          ResultResponse(SrvResourceText(uri, NoApi), id))
                     /\ srv_reply' = NoSrvOutcome
                     /\ UNCHANGED srv_http
              ELSE /\ srv_http' = Append(srv_http,
                        SrvPayload(step_client, method,
                                   [NoPost EXCEPT !.method = method,
                                      !.range = IF method = "get_steps" THEN "last 7 days"
                                                ELSE Absent]))
                   /\ srv_reply' = o
                   /\ srv_stdout' = Append(srv_stdout,
                        ResultResponse(SrvResourceText(uri, SrvCallApi(o)), id))
  /\ srv_served' = srv_served + 1
  /\ UNCHANGED <<srv_env_token, srv_pc, step_client, srv_exit>>

\* handle_list_tools / handle_list_resources: static lists, no client needed
SrvList ==
  /\ srv_pc = "serving"
  /\ srv_served < MaxSrvCalls
  /\ \E what \in {"tools", "resources"} :
       /\ srv_request' = MkSrvRequest("list", what, NoArgs)
       /\ srv_reply' = NoSrvOutcome
       /\ srv_stdout' = Append(srv_stdout,
            ResultResponse(IF what = "tools"
                             THEN "[add_steps,get_steps,get_step_summary,check_daily_goal]"
                             ELSE "[step-challenge://profile,step-challenge://steps/recent]",
                           ToString(srv_served + 1)))
  /\ srv_served' = srv_served + 1
  /\ UNCHANGED <<srv_env_token, srv_pc, step_client, srv_exit, srv_http>>

\* main: stdin is closed, server.run returns and the process ends
SrvEOF ==
  /\ srv_pc = "serving"
  /\ srv_pc' = "exited"
  /\ srv_exit' = 0
  /\ UNCHANGED <<srv_env_token, step_client, srv_stdout, srv_http, srv_reply,
                 srv_request, srv_served>>

\* ====================================== the clients of the flat methods
\* StepChallengeClient._call_api (mcp_server_anthropic.py),
\* StepChallengeMCP._make_rpc_call (test_mcp_python.py) and
\* StepChallengeAPI._call_api (claude_code_integration.py)
VARIABLES
  cli_pc,       \* call: before the call, done: after it, off
  cli_class,    \* the class whose method served the call
  cli_token,    \* self.token of the client
  cli_arg,      \* the params argument as the caller passed it
  cli_params,   \* the caller's params object, as it is now
  cli_sent,     \* the params member of the payload that was posted
  cli_raised    \* the exception the call raised before posting, Absent for none

cliVars == <<cli_pc, cli_class, cli_token, cli_arg, cli_params, cli_sent, cli_raised>>

\* the keys and values of a params mapping
ParamKeys == {"token", "date", "count"}
ParamValues == {"caller_tok", "5000"}
ClientTokens == {"mcp_tok", "", Null}

\* a Python value passed as params: None, or a dict
MkDict(m) == [t |-> "dict", m |-> m]
PyNone == [t |-> "none", m |-> <<>>]
Dicts == UNION { { MkDict(m) : m \in [K -> ParamValues] } : K \in SUBSET ParamKeys }
NotSent == [sent |-> FALSE, params |-> <<>>]
Sent(m) == [sent |-> TRUE, params |-> m]

\* mutant: the members of the caller win over the token of the client
DictWithToken_CallerWins(m, tok) ==
  [k \in DOMAIN m \cup {"token"} |-> IF k \in DOMAIN m THEN m[k] ELSE tok]

\* {**params, "token": self.token}, and params.copy() followed by
\* params_with_token['token'] = self.token: a new dict
DictWithToken(m, tok) ==
  [k \in DOMAIN m \cup {"token"} |-> IF k = "token" THEN tok ELSE m[k]]

\* if params is None: params = {}
ParamsOrEmpty(d) == IF d.t = "none" THEN <<>> ELSE d.m

CliInit ==
  /\ cli_pc = "call"
  /\ cli_class = Absent
  /\ cli_token \in ClientTokens
  /\ cli_arg \in Dicts \cup {PyNone}
  /\ cli_params = cli_arg
  /\ cli_sent = NotSent
  /\ cli_raised = Absent

CliOff ==
  /\ cli_pc = "off"
  /\ cli_class = Absent
  /\ cli_token = Null
  /\ cli_arg = PyNone
  /\ cli_params = PyNone
  /\ cli_sent = NotSent
  /\ cli_raised = Absent

\* StepChallengeClient._call_api: the payload is built and posted
SrvClientCallApi ==
  /\ cli_pc = "call"
  /\ cli_class' = "StepChallengeClient"
  /\ cli_sent' = Sent(DictWithToken(ParamsOrEmpty(cli_arg), cli_token))
  /\ cli_pc' = "done"
  /\ UNCHANGED <<cli_token, cli_arg, cli_params, cli_raised>>

\* StepChallengeMCP._make_rpc_call: no call without a token; params has no
\* default and None has no copy()
TestClientMakeRpcCall ==
  /\ cli_pc = "call"
  /\ cli_class' = "StepChallengeMCP"
  /\ IF Falsy(cli_token)
       THEN /\ cli_raised' = "MCP token is required for API calls"
            /\ UNCHANGED cli_sent
     ELSE IF cli_arg.t = "none"
       THEN /\ cli_raised' = "'NoneType' object has no attribute 'copy'"
            /\ UNCHANGED cli_sent
     ELSE /\ cli_sent' = Sent(DictWithToken(cli_arg.m, cli_token))
          /\ UNCHANGED cli_raised
  /\ cli_pc' = "done"
  /\ UNCHANGED <<cli_token, cli_arg, cli_params>>

\* StepChallengeAPI._call_api: the payload is built and posted
IntegrationCallApi ==
  /\ cli_pc = "call"
  /\ cli_class' = "StepChallengeAPI"
  /\ cli_sent' = Sent(DictWithToken(ParamsOrEmpty(cli_arg), cli_token))
  /\ cli_pc' = "done"
  /\ UNCHANGED <<cli_token, cli_arg, cli_params, cli_raised>>

\* ================================ get_mcp_token.py: StepChallengeAdmin
VARIABLES
  adm_pc,      \* ready: the client is constructed, off
  adm_csrf,    \* self.csrf_token
  adm_http,    \* the HTTP requests of the session, in order, with their fate
  adm_calls    \* the method calls made on the client, in order

admVars == <<adm_pc, adm_csrf, adm_http, adm_calls>>

AdminOps == {"list_mcp_tokens", "create_mcp_token", "get_users"}
NotAuthenticated == "{error: Not authenticated as admin}"

\* one HTTP request of the session and whether it went through
MkAdmRequest(verb, path, ok) == [verb |-> verb, path |-> path, ok |-> ok]

\* what the outside does during one login_admin: the fate of the POST of
\* the magic link, the link the user pastes, the fate of the GET of
\* /auth/<token>, and the reply to the GET of the CSRF token (200 with a
\* token member, 200 without one, another status, a network exception)
LoginRuns ==
  [magic : {"ok", "http_error", "exception"},
   link : {"https://step-app-4x-yhw.fly.dev/auth/abc123?x=1", "abc123"},
   auth : {"ok", "http_error"},
   csrf : {"token", "no_token", "status_403", "exception"}]

\* if "/auth/" in magic_link
HasAuthPath(link) == link = "https://step-app-4x-yhw.fly.dev/auth/abc123?x=1"

\* magic_link.split("/auth/")[-1].split("?")[0]
LinkToken(link) == IF HasAuthPath(link) THEN "abc123" ELSE link

\* one call of a method: its name, what it returned, the number of HTTP
\* requests it made, and csrf_token before and after it
MkAdmCall(op, ret, made, csrf_before, csrf_after) ==
  [op |-> op, ret |-> ret, made |-> made, csrf_before |-> csrf_before,
   csrf_after |-> csrf_after]

\* login_admin: the requests it makes, csrf_token after it, what it returns
LoginAdmin(run, csrf) ==
  LET magic == MkAdmRequest("POST", "/send-magic-link", run.magic = "ok")
      auth == MkAdmRequest("GET", "/auth/" \o LinkToken(run.link), run.auth = "ok")
      csrfget == MkAdmRequest("GET", "/api/csrf-token", run.csrf \in {"token", "no_token"})
  IN  IF run.magic # "ok"
        THEN [reqs |-> <<magic>>, csrf |-> csrf, ret |-> "False"]
      ELSE IF ~HasAuthPath(run.link)
        THEN [reqs |-> <<magic>>, csrf |-> csrf, ret |-> "False"]
      ELSE IF run.auth # "ok"
        THEN [reqs |-> <<magic, auth>>, csrf |-> csrf, ret |-> "False"]
      ELSE IF run.csrf = "token"
        THEN [reqs |-> <<magic, auth, csrfget>>, csrf |-> "csrf_1", ret |-> "True"]
      ELSE IF run.csrf = "no_token"
        THEN \* csrf_response.json().get("token") is None
             [reqs |-> <<magic, auth, csrfget>>, csrf |-> Null, ret |-> "True"]
      ELSE [reqs |-> <<magic, auth, csrfget>>, csrf |-> csrf, ret |-> "False"]

\* the request of one of the admin operations
AdminRequest(op, ok) ==
  IF op = "list_mcp_tokens" THEN MkAdmRequest("GET", "/api/admin/mcp-tokens", ok)
  ELSE IF op = "create_mcp_token" THEN MkAdmRequest("POST", "/api/admin/mcp-tokens", ok)
  ELSE MkAdmRequest("GET", "/api/admin/users", ok)

\* mutant: the operation does not look at csrf_token
AdminOperation_NoCheck(op, fate, csrf) ==
  IF fate = "ok"
    THEN [reqs |-> <<AdminRequest(op, TRUE)>>, ret |-> "response.json()"]
  ELSE [reqs |-> <<AdminRequest(op, FALSE)>>, ret |-> "{error: Failed: " \o fate \o "}"]

\* list_mcp_tokens, create_mcp_token, get_users: the requests the call
\* makes and what it returns
AdminOperation(op, fate, csrf) ==
  IF Falsy(csrf)
    THEN [reqs |-> <<>>, ret |-> NotAuthenticated]
  ELSE IF fate = "ok"
    THEN [reqs |-> <<AdminRequest(op, TRUE)>>, ret |-> "response.json()"]
  ELSE [reqs |-> <<AdminRequest(op, FALSE)>>, ret |-> "{error: Failed: " \o fate \o "}"]

AdmInit ==
  /\ adm_pc = "ready"
  /\ adm_csrf = Null
  /\ adm_http = <<>>
  /\ adm_calls = <<>>

AdmOff ==
  /\ adm_pc = "off"
  /\ adm_csrf = Null
  /\ adm_http = <<>>
  /\ adm_calls = <<>>

\* a call of login_admin
AdmLogin ==
  /\ adm_pc = "ready"
  /\ Len(adm_calls) < MaxAdmCalls
  /\ \E run \in LoginRuns :
       LET r == LoginAdmin(run, adm_csrf)
       IN  /\ adm_csrf' = r.csrf
           /\ adm_http' = adm_http \o r.reqs
           /\ adm_calls' = Append(adm_calls,
                MkAdmCall("login_admin", r.ret, Len(r.reqs), adm_csrf, r.csrf))
  /\ UNCHANGED adm_pc

\* a call of list_mcp_tokens, create_mcp_token or get_users
AdmOperation ==
  /\ adm_pc = "ready"
  /\ Len(adm_calls) < MaxAdmCalls
  /\ \E op \in AdminOps, fate \in {"ok", "http_error", "exception"} :
       LET r == AdminOperation(op, fate, adm_csrf)
       IN  /\ adm_http' = adm_http \o r.reqs
           /\ adm_calls' = Append(adm_calls,
                MkAdmCall(op, r.ret, Len(r.reqs), adm_csrf, adm_csrf))
  /\ UNCHANGED <<adm_pc, adm_csrf>>

\* ============================ install_step_mcp.py: the installer
\* One or more runs of the script on one machine.  The Claude Desktop
\* configuration file is a JSON document; the model keeps of it what
\* setup_claude_config can tell apart: whether the file exists and parses,
\* how it is laid out, whether the document is an object, one top-level key
\* beside mcpServers ("theme"), whether mcpServers is there and is an object,
\* one entry of mcpServers beside step-challenge ("other") and the
\* step-challenge entry itself.
VARIABLES
  ins_pc,       \* the statement of main that runs next
  ins_runs,     \* runs of the script started so far
  ins_cwd,      \* the current directory of the run
  ins_facts,    \* what the checks of main returned in this run
  ins_token,    \* main's local token (Absent before it is bound)
  ins_url,      \* main's local step_url (Absent before it is bound)
  ins_ret,      \* how the last call of setup_claude_config ended
  cfg_file,     \* the Claude Desktop configuration file
  cfg_backup,   \* the file beside it with the suffix .json.backup
  cfg_written   \* the arguments of the call that wrote cfg_file last

insVars == <<ins_pc, ins_runs, ins_cwd, ins_facts, ins_token, ins_url,
             ins_ret, cfg_file, cfg_backup, cfg_written>>

DefaultStepUrl == "https://step-app-4x-yhw.fly.dev"
Cwds == {"/opt/step", "/srv/step"}
TypedTokens == {"", "  ", "mcp_tok", " tok2 "}
TypedUrls == {"", "http://localhost:3000"}
TypedAnswers == {"y", "Y", " y ", "n", "", "yes"}

\* str.strip() and str.lower() on the strings that are typed
Strip(s) ==
  CASE s = "  " -> ""
    [] s = " tok2 " -> "tok2"
    [] s = " y " -> "y"
    [] OTHER -> s
Lower(s) == IF s = "Y" THEN "y" ELSE s

\* str(Path("mcp_server_anthropic.py").absolute())
AbsoluteServerPath(cwd) ==
  IF cwd = "/opt/step" THEN "/opt/step/mcp_server_anthropic.py"
  ELSE "/srv/step/mcp_server_anthropic.py"

\* an entry of mcpServers
MkEntry(command, args, tok, url) ==
  [command |-> command, args |-> args, token |-> tok, url |-> url]
NoEntry == MkEntry(Absent, Absent, Absent, Absent)
ForeignEntry == MkEntry("node", "old_bridge.js", "old_tok", "http://old")
StepChallengeEntry(tok, server_path, step_url) ==
  MkEntry("python", server_path, tok, step_url)

\* the configuration file
MkFile(state, layout, top, theme, servers, other, step) ==
  [state |-> state, layout |-> layout, top |-> top, theme |-> theme,
   servers |-> servers, other |-> other, step |-> step]
MissingFile == MkFile("missing", Absent, Absent, Absent, Absent, Absent, NoEntry)
InvalidFile == MkFile("invalid", Absent, Absent, Absent, Absent, Absent, NoEntry)
\* config = {}
EmptyConfig == MkFile("valid", Absent, "object", Absent, Absent, Absent, NoEntry)
ValidFiles ==
  {MkFile("valid", layout, "array", Absent, Absent, Absent, NoEntry) :
     layout \in {"indent2", "compact"}}
  \cup
  {MkFile("valid", layout, "object", theme, servers, Absent, NoEntry) :
     layout \in {"indent2", "compact"}, theme \in {Absent, "dark"},
     servers \in {Absent, Null}}
  \cup
  {MkFile("valid", layout, "object", theme, "object", other, step) :
     layout \in {"indent2", "compact"}, theme \in {Absent, "dark"},
     other \in {Absent, "other_srv"},
     step \in {NoEntry, ForeignEntry}}
Files == {MissingFile, InvalidFile} \cup ValidFiles

NoWrite == [token |-> Absent, path |-> Absent, url |-> Absent, times |-> 0]
\* the arguments of a call that wrote the file, and how many calls in a row
\* wrote it with these arguments
Written(tok, path, url, before) ==
  [token |-> tok, path |-> path, url |-> url,
   times |-> IF before.token = tok /\ before.path = path /\ before.url = url
             THEN before.times + 1 ELSE 1]

NoFacts ==
  [python |-> "unknown", server |-> "unknown", deps |-> "unknown",
   test |-> "unknown", retry |-> "unasked"]

\* install_dependencies: how pip ends
DepFates == {"ok", "pip_fails", "not_found_then_ok", "not_found_then_fails"}
InstallDependencies(fate) == fate \in {"ok", "not_found_then_ok"}

\* test_connection: how the two requests end
ConnFates == {"profile", "capabilities_not_200", "rpc_error", "result_without_user",
              "exception", "no_requests_package"}
TestConnection(fate) == fate = "profile"

\* if "mcpServers" not in config: config["mcpServers"] = {}   (always {})
WithServers_Fresh(config) ==
  [config EXCEPT !.servers = "object", !.other = Absent, !.step = NoEntry]

\* if "mcpServers" not in config: config["mcpServers"] = {}
WithServers(config) ==
  IF config.servers = Absent THEN [config EXCEPT !.servers = "object"] ELSE config

\* setup_claude_config(token, server_path, step_url) on the files as they
\* are; path is whether get_claude_config_path found a path, save is how
\* open(config_path, 'w') ends.  Returns the files and how the call ended:
\* "True", "False", or "TypeError" when the document or its mcpServers is
\* not an object and the item assignment raises.
SetupClaudeConfig(file, backup, tok, server_path, step_url, path, save) ==
  IF path = "none"
  THEN [file |-> file, backup |-> backup, ret |-> "False"]
  ELSE LET renamed == file.state = "invalid"
           file1   == IF renamed THEN MissingFile ELSE file
           backup1 == IF renamed THEN file ELSE backup
           loaded  == IF file.state = "valid" THEN file ELSE EmptyConfig
       IN  IF loaded.top # "object" \/ loaded.servers = Null
           THEN [file |-> file1, backup |-> backup1, ret |-> "TypeError"]
           ELSE LET config == [WithServers(loaded) EXCEPT
                                 !.step = StepChallengeEntry(tok, server_path, step_url)]
                IN  IF save = "ok"
                    THEN [file |-> [config EXCEPT !.layout = "indent2"],
                          backup |-> backup1, ret |-> "True"]
                    ELSE [file |-> file1, backup |-> backup1, ret |-> "False"]

InsInit ==
  /\ ins_pc = "check_python"
  /\ ins_runs = 1
  /\ ins_cwd \in Cwds
  /\ ins_facts = NoFacts
  /\ ins_token = Absent
  /\ ins_url = Absent
  /\ ins_ret = "none"
  /\ cfg_file \in Files
  /\ cfg_backup = MissingFile
  /\ cfg_written = NoWrite

InsOff ==
  /\ ins_pc = "off"
  /\ ins_runs = 0
  /\ ins_cwd = "/opt/step"
  /\ ins_facts = NoFacts
  /\ ins_token = Absent
  /\ ins_url = Absent
  /\ ins_ret = "none"
  /\ cfg_file = MissingFile
  /\ cfg_backup = MissingFile
  /\ cfg_written = NoWrite

\* main, lines 158-160
InsCheckPython ==
  /\ ins_pc = "check_python"
  /\ \E ok \in BOOLEAN :
       /\ ins_facts' = [ins_facts EXCEPT !.python = IF ok THEN "yes" ELSE "no"]
       /\ ins_pc' = IF ok THEN "check_server_file" ELSE "exit"
  /\ UNCHANGED <<ins_runs, ins_cwd, ins_token, ins_url, ins_ret,
                 cfg_file, cfg_backup, cfg_written>>

\* main, lines 162-167
InsCheckServerFile ==
  /\ ins_pc = "check_server_file"
  /\ \E exists \in BOOLEAN :
       /\ ins_facts' = [ins_facts EXCEPT !.server = IF exists THEN "yes" ELSE "no"]
       /\ ins_pc' = IF exists THEN "install_dependencies" ELSE "exit"
  /\ UNCHANGED <<ins_runs, ins_cwd, ins_token, ins_url, ins_ret,
                 cfg_file, cfg_backup, cfg_written>>

\* main, lines 169-173
InsInstallDependencies ==
  /\ ins_pc = "install_dependencies"
  /\ \E fate \in DepFates :
       LET ok == InstallDependencies(fate)
       IN  /\ ins_facts' = [ins_facts EXCEPT !.deps = IF ok THEN "yes" ELSE "no"]
           /\ ins_pc' = IF ok THEN "enter_token" ELSE "exit"
  /\ UNCHANGED <<ins_runs, ins_cwd, ins_token, ins_url, ins_ret,
                 cfg_file, cfg_backup, cfg_written>>

\* main, lines 179-182
InsEnterToken ==
  /\ ins_pc = "enter_token"
  /\ \E typed \in TypedTokens :
       /\ ins_token' = Strip(typed)
       /\ ins_pc' = IF Strip(typed) = "" THEN "exit" ELSE "enter_url"
  /\ UNCHANGED <<ins_runs, ins_cwd, ins_facts, ins_url, ins_ret,
                 cfg_file, cfg_backup, cfg_written>>

\* main, lines 184-186
InsEnterUrl ==
  /\ ins_pc = "enter_url"
  /\ \E typed \in TypedUrls :
       ins_url' = IF Strip(typed) = "" THEN DefaultStepUrl ELSE Strip(typed)
  /\ ins_pc' = "test_connection"
  /\ UNCHANGED <<ins_runs, ins_cwd, ins_facts, ins_token, ins_ret,
                 cfg_file, cfg_backup, cfg_written>>

\* main, line 189 (and 190 when the test fails)
InsTestConnection ==
  /\ ins_pc = "test_connection"
  /\ \E fate \in ConnFates :
       LET ok == TestConnection(fate)
       IN  /\ ins_facts' = [ins_facts EXCEPT !.test = IF ok THEN "yes" ELSE "no"]
           /\ ins_pc' = IF ok THEN "setup" ELSE "ask_retry"
  /\ UNCHANGED <<ins_runs, ins_cwd, ins_token, ins_url, ins_ret,
                 cfg_file, cfg_backup, cfg_written>>

\* main, lines 191-193, going on whatever is answered
InsAskRetry_AnyAnswer ==
  /\ ins_pc = "ask_retry"
  /\ \E typed \in TypedAnswers :
       ins_facts' = [ins_facts EXCEPT !.retry = Lower(Strip(typed))]
  /\ ins_pc' = "setup"
  /\ UNCHANGED <<ins_runs, ins_cwd, ins_token, ins_url, ins_ret,
                 cfg_file, cfg_backup, cfg_written>>

\* main, lines 191-193
InsAskRetry ==
  /\ ins_pc = "ask_retry"
  /\ \E typed \in TypedAnswers :
       LET retry == Lower(Strip(typed))
       IN  /\ ins_facts' = [ins_facts EXCEPT !.retry = retry]
           /\ ins_pc' = IF retry # "y" THEN "exit" ELSE "setup"
  /\ UNCHANGED <<ins_runs, ins_cwd, ins_token, ins_url, ins_ret,
                 cfg_file, cfg_backup, cfg_written>>

\* main, lines 197-198: the call of setup_claude_config.  A TypeError
\* leaves main and is printed by the handler of lines 234-236.
InsSetup ==
  /\ ins_pc = "setup"
  /\ \E path \in {"found", "none"}, save \in {"ok", "open_fails"} :
       LET server_path == AbsoluteServerPath(ins_cwd)
           r == SetupClaudeConfig(cfg_file, cfg_backup, ins_token, server_path,
                                  ins_url, path, save)
       IN  /\ cfg_file' = r.file
           /\ cfg_backup' = r.backup
           /\ ins_ret' = r.ret
           /\ cfg_written' = IF r.ret = "True"
                             THEN Written(ins_token, server_path, ins_url, cfg_written)
                             ELSE cfg_written
           /\ ins_pc' = IF r.ret = "True" THEN "offer_direct_test" ELSE "exit"
  /\ UNCHANGED <<ins_runs, ins_cwd, ins_facts, ins_token, ins_url>>

\* main, lines 200-227: the closing text and the offer to start the server
InsOfferDirectTest ==
  /\ ins_pc = "offer_direct_test"
  /\ ins_pc' = "exit"
  /\ UNCHANGED <<ins_runs, ins_cwd, ins_facts, ins_token, ins_url, ins_ret,
                 cfg_file, cfg_backup, cfg_written>>

\* the script is started once more, from any directory
InsRunAgain ==
  /\ ins_pc = "exit"
  /\ ins_runs < MaxInsRuns
  /\ ins_runs' = ins_runs + 1
  /\ ins_cwd' \in Cwds
  /\ ins_pc' = "check_python"
  /\ ins_facts' = NoFacts
  /\ ins_token' = Absent
  /\ ins_url' = Absent
  /\ UNCHANGED <<ins_ret, cfg_file, cfg_backup, cfg_written>>

\* the variables of the scripts that are not one of the two servers
toolVars == <<cliVars, admVars, insVars>>
ToolsOff == CliOff /\ AdmOff /\ InsOff

\* =========================================================== observer
\* a test harness in front of step_bridge.py: it remembers the first line
\* that was answered, the reply the remote gave to it, and the response
VARIABLES
  first_answer,
  remote_hung    \* the remote never answers the POST that is under way

obsVars == <<first_answer, remote_hung>>

NoReply == MkOutcome("none", 0, NoBody, "")
NoAnswer ==
  [set |-> FALSE, pc |-> Absent, request |-> NoRequest, reply |-> NoReply,
   response |-> NoResponse]
ObsOff == first_answer = NoAnswer /\ remote_hung = FALSE

\* the remote reply the response being printed was made from
ReplyUsed ==
  IF pc = "print" /\ request.method = "tools/call" /\ request.params.t = "dict"
       /\ request.params.name \notin {Absent, Null, ""}
    THEN http_replies[Len(http_replies)]
    ELSE NoReply

\* the harness looks at the response that is printed
Remember ==
  first_answer' =
    IF first_answer.set THEN first_answer
    ELSE [set |-> TRUE, pc |-> pc, request |-> request, reply |-> ReplyUsed,
          response |-> response]

\* the remote of the POST that has just gone out answers, or never does
RemoteChoice ==
  remote_hung' \in (IF pc' = "http_wait" THEN BOOLEAN ELSE {FALSE})

\* session.post ends by the timeout of the session (aiohttp's default
\* ClientTimeout, total 300 s) exactly when the remote never answers
ReplyMatchesRemote ==
  /\ remote_hung <=> (http_replies'[Len(http_replies')].k = "timeout")
  /\ remote_hung' = FALSE

\* ======================================================= specifications
vars == <<bridgeVars, srvVars, obsVars, toolVars>>

\* the other program is not running
SrvOff ==
  /\ srv_env_token = Absent
  /\ srv_pc = "off"
  /\ step_client = Null
  /\ srv_stdout = <<>>
  /\ srv_exit = -1
  /\ srv_http = <<>>
  /\ srv_reply = NoSrvOutcome
  /\ srv_request = NoSrvRequest
  /\ srv_served = 0

BridgeOff ==
  /\ env_token = Absent
  /\ argv1 = Absent
  /\ py_old = FALSE
  /\ pc = "off"
  /\ token = Absent
  /\ session = "none"
  /\ request = NoRequest
  /\ response = NoResponse
  /\ pending_exc = Absent
  /\ stdout = <<>>
  /\ stderr = <<>>
  /\ exit_code = -1
  /\ http_log = <<>>
  /\ http_replies = <<>>
  /\ stdin_log = <<>>
  /\ stdin_eof = FALSE

\* step_bridge.py
Init == BridgeInit /\ SrvOff /\ ObsOff /\ ToolsOff
Next ==
  \/ StartOldPython /\ UNCHANGED <<toolVars, srvVars, obsVars>>
  \/ StartHelp /\ UNCHANGED <<toolVars, srvVars, obsVars>>
  \/ StartNoToken /\ UNCHANGED <<toolVars, srvVars, obsVars>>
  \/ StartRun /\ UNCHANGED <<toolVars, srvVars, obsVars>>
  \/ ReadLine /\ UNCHANGED <<toolVars, srvVars, obsVars>>
  \/ ReadEOF /\ UNCHANGED <<toolVars, srvVars, obsVars>>
  \/ PrintParseError /\ UNCHANGED <<toolVars, srvVars, obsVars>>
  \/ HttpReply /\ UNCHANGED <<toolVars, srvVars, obsVars>>
  \/ PrintResponse /\ UNCHANGED <<toolVars, srvVars, obsVars>>
  \/ Finally /\ UNCHANGED <<toolVars, srvVars, obsVars>>
Spec == Init /\ [][Next]_vars

\* mcp_server_anthropic.py
InitSrv == SrvInit /\ BridgeOff /\ ObsOff /\ ToolsOff
NextSrv ==
  \/ SrvImport /\ UNCHANGED <<toolVars, bridgeVars, obsVars>>
  \/ SrvMain /\ UNCHANGED <<toolVars, bridgeVars, obsVars>>
  \/ SrvCallTool /\ UNCHANGED <<toolVars, bridgeVars, obsVars>>
  \/ SrvReadResource /\ UNCHANGED <<toolVars, bridgeVars, obsVars>>
  \/ SrvList /\ UNCHANGED <<toolVars, bridgeVars, obsVars>>
  \/ SrvEOF /\ UNCHANGED <<toolVars, bridgeVars, obsVars>>
SrvSpec == InitSrv /\ [][NextSrv]_vars

\* both programs, each on its own, with a remote that may never answer
\* the bridge
InitBoth == Init \/ InitSrv
ReadLineRemote == ReadLine /\ RemoteChoice /\ UNCHANGED <<toolVars, srvVars, first_answer>>
HttpReplyRemote == HttpReply /\ ReplyMatchesRemote /\ UNCHANGED <<toolVars, srvVars, first_answer>>
PrintResponseRemote == PrintResponse /\ UNCHANGED <<toolVars, srvVars, obsVars>>
NextBoth ==
  \/ StartOldPython /\ UNCHANGED <<toolVars, srvVars, obsVars>>
  \/ StartHelp /\ UNCHANGED <<toolVars, srvVars, obsVars>>
  \/ StartNoToken /\ UNCHANGED <<toolVars, srvVars, obsVars>>
  \/ StartRun /\ UNCHANGED <<toolVars, srvVars, obsVars>>
  \/ ReadLineRemote
  \/ ReadEOF /\ UNCHANGED <<toolVars, srvVars, obsVars>>
  \/ PrintParseError /\ UNCHANGED <<toolVars, srvVars, obsVars>>
  \/ HttpReplyRemote
  \/ PrintResponseRemote
  \/ Finally /\ UNCHANGED <<toolVars, srvVars, obsVars>>
  \/ SrvImport /\ UNCHANGED <<toolVars, bridgeVars, obsVars>>
  \/ SrvMain /\ UNCHANGED <<toolVars, bridgeVars, obsVars>>
  \/ SrvCallTool /\ UNCHANGED <<toolVars, bridgeVars, obsVars>>
  \/ SrvReadResource /\ UNCHANGED <<toolVars, bridgeVars, obsVars>>
  \/ SrvList /\ UNCHANGED <<toolVars, bridgeVars, obsVars>>
  \/ SrvEOF /\ UNCHANGED <<toolVars, bridgeVars, obsVars>>
\* the event loop runs the callback of a finished or timed-out POST, and
\* the print that follows handle_request is not held up
BothSpec ==
  InitBoth /\ [][NextBoth]_vars /\ WF_vars(HttpReplyRemote) /\ WF_vars(PrintResponseRemote)

\* step_bridge.py with the harness looking at what it prints
NextObs ==
  \/ StartOldPython /\ UNCHANGED <<toolVars, srvVars, obsVars>>
  \/ StartHelp /\ UNCHANGED <<toolVars, srvVars, obsVars>>
  \/ StartNoToken /\ UNCHANGED <<toolVars, srvVars, obsVars>>
  \/ StartRun /\ UNCHANGED <<toolVars, srvVars, obsVars>>
  \/ ReadLine /\ UNCHANGED <<toolVars, srvVars, obsVars>>
  \/ ReadEOF /\ UNCHANGED <<toolVars, srvVars, obsVars>>
  \/ PrintParseError /\ Remember /\ UNCHANGED <<toolVars, srvVars, remote_hung>>
  \/ HttpReply /\ UNCHANGED <<toolVars, srvVars, obsVars>>
  \/ PrintResponse /\ Remember /\ UNCHANGED <<toolVars, srvVars, remote_hung>>
  \/ Finally /\ UNCHANGED <<toolVars, srvVars, obsVars>>
ObsSpec == Init /\ [][NextObs]_vars

\* the three clients of the flat methods, one call each
InitCli == BridgeOff /\ SrvOff /\ ObsOff /\ CliInit /\ AdmOff /\ InsOff
NextCli ==
  \/ SrvClientCallApi /\ UNCHANGED <<bridgeVars, srvVars, obsVars, admVars, insVars>>
  \/ TestClientMakeRpcCall /\ UNCHANGED <<bridgeVars, srvVars, obsVars, admVars, insVars>>
  \/ IntegrationCallApi /\ UNCHANGED <<bridgeVars, srvVars, obsVars, admVars, insVars>>
CliSpec == InitCli /\ [][NextCli]_vars

\* get_mcp_token.py: any sequence of calls on one StepChallengeAdmin
InitAdm == BridgeOff /\ SrvOff /\ ObsOff /\ CliOff /\ AdmInit /\ InsOff
NextAdm ==
  \/ AdmLogin /\ UNCHANGED <<bridgeVars, srvVars, obsVars, cliVars, insVars>>
  \/ AdmOperation /\ UNCHANGED <<bridgeVars, srvVars, obsVars, cliVars, insVars>>
AdmSpec == InitAdm /\ [][NextAdm]_vars

\* install_step_mcp.py: runs of the installer on one machine
InitIns == BridgeOff /\ SrvOff /\ ObsOff /\ CliOff /\ AdmOff /\ InsInit
NextIns ==
  \/ InsCheckPython /\ UNCHANGED <<bridgeVars, srvVars, obsVars, cliVars, admVars>>
  \/ InsCheckServerFile /\ UNCHANGED <<bridgeVars, srvVars, obsVars, cliVars, admVars>>
  \/ InsInstallDependencies /\ UNCHANGED <<bridgeVars, srvVars, obsVars, cliVars, admVars>>
  \/ InsEnterToken /\ UNCHANGED <<bridgeVars, srvVars, obsVars, cliVars, admVars>>
  \/ InsEnterUrl /\ UNCHANGED <<bridgeVars, srvVars, obsVars, cliVars, admVars>>
  \/ InsTestConnection /\ UNCHANGED <<bridgeVars, srvVars, obsVars, cliVars, admVars>>
  \/ InsAskRetry /\ UNCHANGED <<bridgeVars, srvVars, obsVars, cliVars, admVars>>
  \/ InsSetup /\ UNCHANGED <<bridgeVars, srvVars, obsVars, cliVars, admVars>>
  \/ InsOfferDirectTest /\ UNCHANGED <<bridgeVars, srvVars, obsVars, cliVars, admVars>>
  \/ InsRunAgain /\ UNCHANGED <<bridgeVars, srvVars, obsVars, cliVars, admVars>>
InsSpec == InitIns /\ [][NextIns]_vars


\* ================================================== shared observations
\* the lines read that call for a response (all but the blank ones)
NonBlankLog == SelectSeq(stdin_log, LAMBDA e : e.kind # "blank")

\* the JSON-RPC response lines on stdout
Responses == SelectSeq(stdout, IsJsonLine)

\* the loop is at its top, or over: no line is being worked on
AtRest == pc \in {"read", "finally", "exited"}

\* the id a response to log entry e has to carry
ExpectedId(e) == IF e.kind = "object" /\ e.id # Absent THEN e.id ELSE Null

\* the request being handled is a tools/call that went out to the remote
CallWentOut ==
  /\ request.method = "tools/call"
  /\ request.params.t = "dict"
  /\ request.params.name \notin {Absent, Null, ""}

LastReply == http_replies[Len(http_replies)]

\* ====================================================================
\* C1: every line read that is a JSON object with method initialize,
\* tools/list or tools/call gets exactly one response line, and that
\* response carries the id of the request (null when it has none), be it
\* a result or an error.
C1_OneResponseSameId ==
  /\ Len(Responses) <= Len(NonBlankLog)
  /\ \A k \in 1..Len(NonBlankLog) :
       (NonBlankLog[k].kind = "object" /\ NonBlankLog[k].method \in McpMethods)
         => /\ (AtRest \/ k < Len(NonBlankLog)) => k <= Len(Responses)
            /\ k <= Len(Responses)
                 => /\ Responses[k].id =
                         (IF NonBlankLog[k].id = Absent THEN Null ELSE NonBlankLog[k].id)
                    /\ (Responses[k].result = Absent) # (Responses[k].error = NoError)

C1_Witness ==
  /\ pc = "read"
  /\ Len(NonBlankLog) = 2
  /\ NonBlankLog[1].method = "tools/call" /\ NonBlankLog[1].id = "7"
  /\ NonBlankLog[2].method = "initialize" /\ NonBlankLog[2].id = Absent
  /\ Len(Responses) = 2
  /\ Responses[1].id = "7" /\ Responses[1].error # NoError
  /\ Responses[2].id = Null /\ Responses[2].result # Absent

\* C2: every failure caused by one input line (not JSON, JSON that is not
\* an object, unknown or missing method, ...) ends in one JSON-RPC error
\* line and the process goes on: the loop is only left at end of file,
\* with every line read answered.
C2_FailureBecomesErrorLine ==
  AtRest =>
    /\ pending_exc = Absent
    /\ exit_code \in {-1, 0}
    /\ Len(Responses) = Len(NonBlankLog)
    /\ \A k \in 1..Len(NonBlankLog) :
         (NonBlankLog[k].kind \in {"nonjson", "nonobject"}
            \/ NonBlankLog[k].method \notin McpMethods)
           => k <= Len(Responses) /\ Responses[k].error # NoError

\* C3: a line that is not JSON is answered by a ParseError response, code
\* -32700 and id null, and the loop goes on: it ends only at end of file.
C3_ParseError ==
  \A k \in 1..Len(NonBlankLog) :
    NonBlankLog[k].kind = "nonjson"
      => /\ (AtRest \/ k < Len(NonBlankLog)) => k <= Len(Responses)
         /\ k <= Len(Responses)
              => /\ Responses[k].error.code = -32700
                 /\ Responses[k].id = Null
                 /\ Responses[k].result = Absent
         /\ (k = Len(NonBlankLog) /\ pc \in {"finally", "exited"})
              => stdin_eof /\ pending_exc = Absent

C3_Witness ==
  /\ Len(stdin_log) = 2
  /\ stdin_log[1].kind = "nonjson"
  /\ stdin_log[2].kind = "object"
  /\ Len(Responses) = 2
  /\ Responses[1].error.code = -32700
  /\ Responses[2].result # Absent

\* C4: a request object whose method is not a recognized one is answered
\* by MethodNotFound, code -32601, with the id of the request and the
\* requested method name in the error, and no HTTP request goes out for it.
C4_MethodNotFound ==
  /\ \A k \in 1..Len(NonBlankLog) :
       (NonBlankLog[k].kind = "object"
          /\ NonBlankLog[k].method \notin McpMethods)
         => /\ (AtRest \/ k < Len(NonBlankLog)) => k <= Len(Responses)
            /\ k <= Len(Responses)
                 => /\ Responses[k].error.code = -32601
                    /\ Responses[k].error.data =
                         "Unknown method: " \o (IF NonBlankLog[k].method = Absent THEN "None"
                                                ELSE NonBlankLog[k].method)
                    /\ Responses[k].id = ExpectedId(NonBlankLog[k])
                    /\ Responses[k].result = Absent
  /\ Len(http_log) <=
       Len(SelectSeq(NonBlankLog,
                     LAMBDA e : e.kind = "object" /\ e.method = "tools/call"))

C4_Witness ==
  /\ pc = "read"
  /\ Len(NonBlankLog) = 2
  /\ NonBlankLog[1].method = "bogus" /\ NonBlankLog[1].id = "7"
  /\ NonBlankLog[2].method = Absent /\ NonBlankLog[2].kind = "object"
  /\ Len(Responses) = 2
  /\ Responses[1].error.data = "Unknown method: bogus"
  /\ Responses[2].error.data = "Unknown method: None"
  /\ http_log = <<>>

\* C5: when the remote answers a tools/call that has a non-empty name with
\* HTTP 200 and a body with a result R and no error, the line printed is
\* exactly {jsonrpc: 2.0, result: R, id: the id of the request}.
C5_ResultPassedThrough ==
  [][ ( /\ pc = "print"
        /\ CallWentOut
        /\ LastReply.k = "http" /\ LastReply.status = 200
        /\ LastReply.body.t = "dict"
        /\ LastReply.body.result # Absent
        /\ ~LastReply.body.has_error )
      => stdout' = Append(stdout,
           [jsonrpc |-> "2.0", result |-> LastReply.body.result, error |-> NoError,
            id |-> (IF request.id = Absent THEN Null ELSE request.id),
            text |-> Absent]) ]_vars

C5_Witness ==
  /\ pc = "read"
  /\ Len(stdin_log) = 1 /\ stdin_log[1].method = "tools/call" /\ stdin_log[1].id = "7"
  /\ Len(http_replies) = 1
  /\ http_replies[1].status = 200 /\ http_replies[1].body.result = "{ok:true}"
  /\ http_log[1].id = "1"
  /\ stdout = << [jsonrpc |-> "2.0", result |-> "{ok:true}", error |-> NoError,
                  id |-> "7", text |-> Absent] >>

\* C6: when the remote answers a tools/call with a status other than 200,
\* the bridge prints a ServerError response, code -32000, with the id of
\* the request, and is back at reading the next line.
C6_Non200IsServerError ==
  [][ ( /\ pc = "print"
        /\ CallWentOut
        /\ LastReply.k = "http" /\ LastReply.status # 200 )
      => /\ Len(stdout') = Len(stdout) + 1
         /\ stdout'[Len(stdout')].error.code = -32000
         /\ stdout'[Len(stdout')].result = Absent
         /\ stdout'[Len(stdout')].id = (IF request.id = Absent THEN Null ELSE request.id)
         /\ pc' = "read"
         /\ pending_exc' = Absent
         /\ exit_code' = -1 ]_vars

C6_Witness ==
  /\ pc = "print"
  /\ Len(stdin_log) = 2 /\ stdin_log[1].method = "tools/call" /\ stdin_log[1].id = "7"
  /\ Len(http_replies) = 1 /\ http_replies[1].status = 500
  /\ Len(stdout) = 1
  /\ stdout[1].error = MkError(-32000, "Server error", "HTTP 500: Internal Server Error")
  /\ stdout[1].id = "7"

\* C7 as stated: started with STEP_TOKEN unset or empty, the process ends
\* with a non-zero exit code before the loop: nothing is read, no HTTP
\* request goes out and nothing is written to stdout.
C7_NoTokenExitsNonZero ==
  Falsy(env_token)
    => /\ pc \in {"start", "exited"}
       /\ pc = "exited" => exit_code # 0
       /\ stdin_log = <<>> /\ ~stdin_eof
       /\ http_log = <<>>
       /\ stdout = <<>>

\* C7 amended: the same, for a start without a help argument.
C7_NoTokenNoHelpExitsNonZero ==
  (Falsy(env_token) /\ argv1 \notin HelpArgs)
    => /\ pc \in {"start", "exited"}
       /\ pc = "exited" => exit_code # 0
       /\ stdin_log = <<>> /\ ~stdin_eof
       /\ http_log = <<>>
       /\ stdout = <<>>

C7_Witness ==
  /\ env_token = Absent /\ argv1 = Absent /\ ~py_old
  /\ pc = "exited" /\ exit_code = 1
  /\ Len(stderr) = 6

\* C8 as stated: started without STEP_CHALLENGE_TOKEN, the server exits
\* with a non-zero status before it serves any request.
C8_SrvNoTokenExits ==
  Falsy(srv_env_token)
    => /\ srv_pc # "serving"
       /\ srv_served = 0
       /\ srv_pc = "exited" => srv_exit > 0

\* C8 amended: started without STEP_CHALLENGE_TOKEN, the server does not
\* exit: it prints a warning, leaves step_client unset and serves requests
\* without any outbound HTTP request; it ends with status 0 at end of input.
C8_SrvNoTokenWarnsAndServes ==
  Falsy(srv_env_token)
    => /\ srv_exit \in {-1, 0}
       /\ srv_pc = "exited" <=> srv_exit = 0
       /\ srv_http = <<>>
       /\ srv_pc \in {"main", "serving", "exited"}
            => /\ step_client = Null
               /\ Len(srv_stdout) >= 1
               /\ srv_stdout[1] =
                    TextLine("Warning: STEP_CHALLENGE_TOKEN environment variable not set")
       /\ srv_served > 0 => srv_pc \in {"serving", "exited"}

C8_Witness ==
  /\ srv_env_token = Absent
  /\ srv_pc = "serving"
  /\ srv_served = 1
  /\ srv_exit = -1
  /\ srv_stdout[Len(srv_stdout)] = ResultResponse(TokenNotConfigured, "1")

\* C9: requests are processed strictly in order: at most one line read is
\* without its response at any time, no line is read while one is, and the
\* responses are on stdout in the order of their requests.
C9_StrictOrder ==
  /\ Len(Responses) <= Len(NonBlankLog)
  /\ Len(NonBlankLog) - Len(Responses) <= 1
  /\ pc = "read" => Len(Responses) = Len(NonBlankLog)
  /\ Len(NonBlankLog) > Len(Responses)
       => stdin_log[Len(stdin_log)] = NonBlankLog[Len(NonBlankLog)]
  /\ \A k \in 1..Len(Responses) :
       /\ Responses[k].id = ExpectedId(NonBlankLog[k])
       /\ NonBlankLog[k].kind = "nonjson" <=> Responses[k].error.code = -32700

C9_Witness ==
  /\ pc = "http_wait"
  /\ Len(NonBlankLog) = 2
  /\ NonBlankLog[1].id = "7" /\ NonBlankLog[2].id = Absent
  /\ Len(Responses) = 1
  /\ Responses[1].id = "7"

\* C10 as stated: never more lines on stdout than lines read, and nothing
\* on stdout before the first line is read.
C10_NoUnsolicitedOutput ==
  /\ Len(stdout) <= Len(stdin_log)
  /\ stdin_log = <<>> => stdout = <<>>

\* C10 amended: the same, for a start without a help argument.
C10_NoUnsolicitedOutputNoHelp ==
  argv1 \notin HelpArgs
    => /\ Len(stdout) <= Len(stdin_log)
       /\ stdin_log = <<>> => stdout = <<>>

C10_Witness ==
  /\ argv1 = Absent
  /\ pc = "read"
  /\ Len(stdin_log) = 2
  /\ stdin_log[1].kind = "blank"
  /\ Len(stdout) = 1

\* C11 as stated: every line mcp_server_anthropic.py writes to stdout is a
\* JSON-RPC response object; no other text is written at import, at
\* startup or while serving, with or without the token.
C11_SrvStdoutOnlyJsonRpc ==
  \A k \in 1..Len(srv_stdout) : IsJsonLine(srv_stdout[k])

\* C12: every response line step_bridge.py prints in its loop, on every
\* path, is an object with jsonrpc 2.0 and an id in which exactly one of
\* result and error is present.
C12_ExactlyOneOfResultError ==
  /\ \A k \in 1..Len(stdout) :
       (IsJsonLine(stdout[k]) \/ stdin_log # <<>>)
         => /\ stdout[k].jsonrpc = "2.0"
            /\ stdout[k].text = Absent
            /\ stdout[k].id # Absent
            /\ (stdout[k].result = Absent) # (stdout[k].error = NoError)
            /\ stdout[k].error # NoError => stdout[k].error.code # 0
  /\ pc \in {"print", "print_error"}
       => /\ response.jsonrpc = "2.0"
          /\ response.id # Absent
          /\ (response.result = Absent) # (response.error = NoError)

C12_Witness ==
  /\ Len(stdout) = 2
  /\ stdout[1].error # NoError /\ stdout[1].result = Absent
  /\ stdout[1].error.code = -32000
  /\ stdout[2].result # Absent /\ stdout[2].error = NoError

\* the process got past the startup checks and entered the loop of run
LoopEntered == token # Absent

\* C13: the loop of run is left without an exception only by reading
\* end-of-file; after end-of-file the only thing left is the finally
\* block, which closes the session if one is open, nothing more is written
\* to stdout and the exit code is 0; a blank line leaves the loop at its
\* top without output, and printing an error response leads back to the
\* top of the loop.
C13_EofOnlyNormalEnd ==
  /\ [](/\ (LoopEntered /\ pc \in {"finally", "exited"} /\ pending_exc = Absent)
             => stdin_eof
        /\ (LoopEntered /\ exit_code = 0) => stdin_eof
        /\ stdin_eof => /\ pc \in {"finally", "exited"}
                        /\ pending_exc = Absent
                        /\ exit_code \in {-1, 0}
        /\ (stdin_eof /\ pc = "exited") => (exit_code = 0 /\ session # "open"))
  /\ [][/\ stdin_eof => (stdout' = stdout /\ stderr' = stderr /\ http_log' = http_log)
        /\ (stdin_log' # stdin_log /\ stdin_log'[Len(stdin_log')].kind = "blank")
             => (pc' = "read" /\ stdout' = stdout /\ ~stdin_eof')
        /\ (pc \in {"print", "print_error"} /\ response.error # NoError)
             => (pc' = "read" /\ ~stdin_eof')
        /\ (~stdin_eof /\ stdin_eof') => pc = "read"
       ]_vars

\* end-of-file after a parse error and a failed call that
\* opened the session: the session is closed and the exit code is 0
C13_Witness ==
  /\ pc = "exited" /\ stdin_eof /\ exit_code = 0
  /\ session = "closed"
  /\ Len(stdout) = 2
  /\ stdout[1].error.code = -32700
  /\ stdout[2].error.code = -32000

\* the remote call with outcome o did not succeed
OutcomeFailed(o) == o.k # "http" \/ o.status # 200 \/ o.body.has_error

\* C14: the step that reads a tools/call request with a non-empty name
\* sends exactly one POST, to MCP_ENDPOINT with Authorization: Bearer and
\* the token of the environment at process start and with the name of the
\* request; no other step sends a POST; the reply, whatever it is, is
\* followed directly by the one response of the request, an error
\* response when the call failed, without a further POST.
C14_OnePostPerCallNoRetry ==
  /\ [](/\ Len(http_replies) <= Len(http_log)
        /\ Len(http_log) <= Len(http_replies) + 1
        /\ Len(http_log) = Len(http_replies) + 1 <=> pc = "http_wait")
  /\ [][/\ IF stdin_log' # stdin_log /\ CallWentOut'
             THEN /\ Len(http_log') = Len(http_log) + 1
                  /\ SubSeq(http_log', 1, Len(http_log)) = http_log
                  /\ LET post == http_log'[Len(http_log')]
                     IN  /\ post.url = MCP_ENDPOINT
                         /\ post.authorization = "Bearer " \o env_token
                         /\ post.method = "tools/call"
                         /\ post.name = request'.params.name
                  /\ pc' = "http_wait"
             ELSE http_log' = http_log
        /\ pc = "http_wait"
             => /\ Len(http_replies') = Len(http_replies) + 1
                /\ pc' = "print"
                /\ response'.id = RequestId(request)
                /\ OutcomeFailed(LastReply') => response'.error # NoError
        /\ pc # "http_wait" => http_replies' = http_replies
       ]_vars

\* two calls that both failed: two POSTs, two replies, two error responses
C14_Witness ==
  /\ Len(http_log) = 2 /\ Len(http_replies) = 2 /\ Len(stdout) = 2
  /\ \A k \in 1..2 : /\ OutcomeFailed(http_replies[k])
                     /\ stdout[k].error # NoError
                     /\ http_log[k].authorization = "Bearer mcp_tok"
  /\ http_replies[1].k = "timeout" /\ http_replies[2].status = 500

\* the line read by this step is a request object with a flat method
LegacyLineRead ==
  /\ stdin_log' # stdin_log
  /\ stdin_log'[Len(stdin_log')].kind = "object"
  /\ stdin_log'[Len(stdin_log')].method \in LegacyMethods

\* C15 as stated: a request whose method is add_steps, get_steps or
\* get_user_profile is recognized: reading it sends one POST, and its
\* response is not MethodNotFound.
C15_LegacyMethodForwarded ==
  [][/\ LegacyLineRead => (Len(http_log') = Len(http_log) + 1 /\ pc' = "http_wait")
     /\ (pc = "print" /\ request.method \in LegacyMethods)
          => (response.error = NoError /\ stdout'[Len(stdout')].result # Absent)
    ]_vars

\* C15 amended: a request whose method is add_steps, get_steps or
\* get_user_profile is not recognized by step_bridge.py: it sends no POST,
\* opens no session, and is answered by the error -32601 "Method not
\* found" that names the method and carries the id of the request.
C15_LegacyMethodNotFound ==
  [][LegacyLineRead
       => /\ http_log' = http_log
          /\ session' = session
          /\ pc' = "print"
          /\ response' = ErrorResponse(-32601, "Method not found",
                           "Unknown method: " \o stdin_log'[Len(stdin_log')].method,
                           ExpectedId(stdin_log'[Len(stdin_log')]))
    ]_vars

C15_Witness ==
  /\ pc = "read"
  /\ Len(stdin_log) = 2
  /\ stdin_log[1].method = "get_steps" /\ stdin_log[2].method = "add_steps"
  /\ Len(stdout) = 2
  /\ stdout[1].error.data = "Unknown method: get_steps"
  /\ stdout[2].error.data = "Unknown method: add_steps"
  /\ http_log = <<>> /\ session = "none"

UpstreamDetail(o) ==
  IF o.k = "client_error" THEN {"Network error: " \o o.text}
  ELSE IF o.k = "http" /\ o.status # 200
    THEN {"HTTP " \o ToString(o.status) \o ": " \o o.text}
  ELSE IF o.body.err_data # Absent THEN {o.body.err_data, o.body.err_message}
  ELSE {o.body.err_message}

\* C17 as stated: when the call of a tools/call failed downstream by a
\* non-200 status, a network exception or an error object in a 200 reply,
\* with or without data, the response has code -32000 and its data or its
\* message carries the upstream detail.
C17_FailureCarriesUpstreamDetail ==
  (/\ pc = "print"
   /\ CallWentOut
   /\ LastReply.k \in {"http", "client_error"}
   /\ OutcomeFailed(LastReply))
    => /\ response.error # NoError
       /\ response.error.code = -32000
       /\ response.id = RequestId(request)
       /\ \/ response.error.data \in UpstreamDetail(LastReply)
          \/ response.error.message \in UpstreamDetail(LastReply)

\* line k of stdout is the error response to a call ended by the timeout
TimedOutAnswer(k) ==
  IF k \in 1..Len(stdout) /\ http_replies # <<>>
    THEN /\ stdout[k].error # NoError
         /\ stdout[k].error.code = -32000
         /\ http_replies[Len(http_replies)].k = "timeout"
    ELSE FALSE

ObjectRead ==
  IF stdin_log' # stdin_log /\ stdin_log'[Len(stdin_log')].kind = "object"
    THEN request'
    ELSE NoRequest

\* C19: reading an initialize or a tools/list request, whatever its
\* params, sends no POST and leaves the session as it is, and the response
\* is the result with the static record: the capabilities and server info
\* for initialize, the three tool descriptors add_steps, get_steps and
\* get_user_profile for tools/list; and a session exists only after a POST.
C19_StaticNoSideEffect ==
  /\ [](session # "none" => http_log # <<>>)
  /\ [][ObjectRead.method \in {"initialize", "tools/list"}
          => /\ http_log' = http_log
             /\ http_replies' = http_replies
             /\ session' = session
             /\ token' = token
             /\ stdout' = stdout /\ stderr' = stderr
             /\ pc' = "print"
             /\ response' =
                  ResultResponse(
                    IF ObjectRead.method = "initialize"
                      THEN "{protocolVersion:2025-03-26,capabilities:{tools:{}},serverInfo:{name:Step Challenge MCP Bridge,version:1.0.0}}"
                      ELSE "{tools:[add_steps,get_steps,get_user_profile]}",
                    IF ObjectRead.id = Absent THEN Null ELSE ObjectRead.id)
       ]_vars

\* after an initialize, a tools/list whose params name a tool is about to
\* be answered with the full list, no session having been created
C19_Witness ==
  /\ pc = "print"
  /\ Len(stdin_log) = 2 /\ stdin_log[1].method = "initialize"
  /\ Len(stdout) = 1 /\ stdout[1].result # Absent
  /\ request.method = "tools/list"
  /\ request.params.name = "add_steps"
  /\ response.result = "{tools:[add_steps,get_steps,get_user_profile]}"
  /\ http_log = <<>> /\ session = "none"

\* C20: reading a tools/call request whose params have no name, or the
\* name null or the empty string, sends no POST and creates no session,
\* and the response is an error with the id of the request.
C20_MissingNameIsErrorNoPost ==
  [][(/\ ObjectRead.method = "tools/call"
      /\ ObjectRead.params.t \in {"dict", Absent}
      /\ ObjectRead.params.name \in {Absent, Null, ""})
       => /\ http_log' = http_log
          /\ session' = session
          /\ pc' = "print"
          /\ response'.error # NoError
          /\ response'.result = Absent
          /\ response'.error.code = -32000
          /\ response'.error.data = "Tool name is required"
          /\ response'.id = (IF ObjectRead.id = Absent THEN Null ELSE ObjectRead.id)
    ]_vars

\* a tools/call with an empty name has been answered and one with a null
\* name is about to be: two errors, no POST, no session
C20_Witness ==
  /\ pc = "print"
  /\ Len(stdin_log) = 2 /\ stdin_log[1].method = "tools/call"
  /\ Len(stdout) = 1 /\ stdout[1].error.data = "Tool name is required"
  /\ request.method = "tools/call" /\ request.id = "7"
  /\ request.params.t = "dict" /\ request.params.name = Null
  /\ response.error.data = "Tool name is required" /\ response.id = "7"
  /\ http_log = <<>> /\ session = "none"

\* C21: no session exists until the first POST goes out; that step
\* creates the one session of the process, every later POST leaves it as
\* it is; the only other change of the session is its close in the finally
\* block, after end-of-file or an exception, and once the process has
\* ended a session that was created is closed.
C21_SessionLazyOnceClosedAtExit ==
  /\ [](/\ session = "none" <=> http_log = <<>>
        /\ session = "open" => pc \in {"read", "http_wait", "print", "print_error", "finally"}
        /\ session = "closed" => pc = "exited"
        /\ (pc = "exited" /\ http_log # <<>>) => session = "closed")
  /\ [][/\ session' # session
            => \/ /\ session = "none" /\ session' = "open"
                  /\ http_log = <<>> /\ Len(http_log') = 1
               \/ /\ session = "open" /\ session' = "closed"
                  /\ pc = "finally" /\ pc' = "exited"
                  /\ (stdin_eof \/ pending_exc # Absent)
        /\ (http_log' # http_log /\ http_log # <<>>)
            => (session = "open" /\ session' = "open")
       ]_vars

\* two calls went out on the one session, then end-of-file closed it
C21_Witness ==
  /\ pc = "exited" /\ stdin_eof
  /\ Len(http_log) = 2 /\ Len(stdout) = 2
  /\ session = "closed"

\* the text of the response to the request served last
SrvLastText ==
  IF srv_stdout = <<>> THEN Absent ELSE srv_stdout[Len(srv_stdout)].result

\* the remote call of the request served last failed: an error status, a
\* network exception or a timeout
SrvCallFailed ==
  \/ srv_reply.k = "exception"
  \/ srv_reply.k = "http" /\ srv_reply.status >= 400

\* the start of the text a tool returns for a failed remote call
SrvFailPrefix(name) ==
  IF name = "add_steps" THEN "Failed to add steps: "
  ELSE IF name = "get_steps" THEN "Failed to get steps: "
  ELSE "Failed to get step summary: "

\* C22 as stated: when the remote call behind add_steps, get_steps or
\* get_step_summary failed by an error status, a network exception or a
\* timeout, the text handle_call_tool returns carries the failure detail
\* that _call_api produced, "API call failed: " and the text of the
\* exception, not the placeholder "Unknown error".
C22_ToolTextCarriesFailureDetail ==
  (/\ srv_request.kind = "tool"
   /\ srv_request.name \in {"add_steps", "get_steps", "get_step_summary"}
   /\ SrvCallFailed)
    => /\ SrvLastText # SrvFailPrefix(srv_request.name) \o "Unknown error"
       /\ SrvLastText = SrvFailPrefix(srv_request.name)
                          \o "API call failed: " \o srv_reply.text

\* C23: while step_client is None, which is what an absent or empty token
\* leaves, the response to every tool call and every resource read, for
\* any name, uri and arguments, is the text "Error: Step Challenge token
\* not configured", and no POST has gone out.
C23_NoClientNoCall ==
  /\ (Falsy(srv_env_token) /\ srv_pc # "import") => step_client = Null
  /\ step_client = Null
       => /\ srv_http = <<>>
          /\ srv_reply = NoSrvOutcome
          /\ srv_request.kind \in {"tool", "resource"}
               => SrvLastText = TokenNotConfigured

\* the second of two requests served without a token was the call of an
\* unknown tool
C23_Witness ==
  /\ Falsy(srv_env_token)
  /\ srv_served = 2
  /\ srv_request = MkSrvRequest("tool", "bogus", MkArgs("dict", "2025-07-30", "5000", "true"))
  /\ srv_stdout[Len(srv_stdout) - 1].result = TokenNotConfigured
  /\ SrvLastText = TokenNotConfigured
  /\ srv_http = <<>>

\* the texts of the except clause of handle_call_tool
ToolExecutionFailed ==
  { "Tool execution failed: 'date'",
    "Tool execution failed: 'count'",
    "Tool execution failed: 'steps'",
    "Tool execution failed: cannot access local variable 'datetime' where it is not associated with a value" }

\* the arguments of the request served last lack date or count
SrvArgsIncomplete ==
  srv_request.arguments.date = Absent \/ srv_request.arguments.count = Absent

\* the tool call served last ended in the text its case calls for
LastToolCallConverted ==
  /\ srv_stdout # <<>>
  /\ srv_stdout[Len(srv_stdout)].error = NoError
  /\ SrvLastText # Absent
  /\ (srv_request.name = "add_steps" /\ SrvArgsIncomplete)
       => (SrvLastText \in ToolExecutionFailed /\ srv_reply = NoSrvOutcome)
  /\ (srv_reply.k = "http" /\ srv_reply.status = 200 /\ srv_reply.body.result = "odd")
       => SrvLastText \in ToolExecutionFailed
  /\ srv_request.name = "check_daily_goal" => SrvLastText \in ToolExecutionFailed
  /\ srv_request.name \notin {"add_steps", "get_steps", "get_step_summary", "check_daily_goal"}
       => (SrvLastText = "Unknown tool: " \o srv_request.name /\ srv_reply = NoSrvOutcome)

\* C24 as stated: every call of handle_call_tool ends in a text result: a
\* missing date or count of add_steps, a remote result of another shape
\* and any other exception give 'Tool execution failed', and a tool name
\* that is not known gives 'Unknown tool' and no POST.
C24_ToolCallNeverRaises ==
  srv_request.kind = "tool" => LastToolCallConverted

\* C24 amended: the same, for the calls made while a client is configured;
\* without one the text is that of the missing token for every name.
C24_ToolCallNeverRaisesWithClient ==
  /\ (srv_request.kind = "tool" /\ step_client # Null) => LastToolCallConverted
  /\ (srv_request.kind = "tool" /\ step_client = Null)
       => (/\ srv_stdout # <<>>
           /\ srv_stdout[Len(srv_stdout)].error = NoError
           /\ SrvLastText = TokenNotConfigured)

\* with a client: add_steps without arguments gave 'Tool execution
\* failed', then an unknown tool gave 'Unknown tool', and no POST went out
C24_Witness ==
  /\ step_client # Null
  /\ srv_served = 2
  /\ srv_stdout[Len(srv_stdout) - 1].result = "Tool execution failed: 'date'"
  /\ srv_request.kind = "tool" /\ srv_request.name = "bogus"
  /\ SrvLastText = "Unknown tool: bogus"
  /\ srv_http = <<>>

\* C25: the params a flat-method client posts have the keys of the
\* caller's params and the key token; token has the value of the client's
\* own token, also when the caller supplied one; every other key has the
\* caller's value; and the caller's params object is as it was.
C25_TokenInjectedFrameKept ==
  /\ cli_params = cli_arg
  /\ cli_sent.sent
       => /\ cli_pc = "done"
          /\ DOMAIN cli_sent.params = DOMAIN ParamsOrEmpty(cli_arg) \cup {"token"}
          /\ cli_sent.params["token"] = cli_token
          /\ \A k \in DOMAIN ParamsOrEmpty(cli_arg) \ {"token"} :
               cli_sent.params[k] = cli_arg.m[k]

\* the caller passed its own token and a date: the client's token was sent
C25_Witness ==
  /\ cli_pc = "done"
  /\ cli_sent.sent
  /\ cli_token = "mcp_tok"
  /\ cli_arg.t = "dict"
  /\ DOMAIN cli_arg.m = {"token", "date"}
  /\ cli_arg.m["token"] = "caller_tok"
  /\ cli_sent.params["token"] = "mcp_tok"
  /\ cli_sent.params["date"] = cli_arg.m["date"]

\* C26: the POST step_bridge.py makes for a tools/call carries the name
\* and the arguments of the request as they came (an empty mapping when
\* the request has none); the add_steps POST of mcp_server_anthropic.py
\* carries the caller's date and count, and allow_overwrite true exactly
\* when the caller's arguments have it true, false when they have none;
\* no other POST of the server carries allow_overwrite.
C26_OverwriteOnlyOnRequest ==
  /\ pc = "http_wait"
       => /\ http_log # <<>>
          /\ http_log[Len(http_log)].name = request.params.name
          /\ http_log[Len(http_log)].arguments =
               (IF request.params.arguments = Absent THEN "{}"
                ELSE request.params.arguments)
  /\ \A k \in 1..Len(srv_http) :
       srv_http[k].params.allow_overwrite # Absent
         => srv_http[k].method = "add_steps"
  /\ (srv_request.kind = "tool" /\ srv_request.name = "add_steps"
        /\ srv_reply # NoSrvOutcome)
       => /\ srv_http # <<>>
          /\ srv_http[Len(srv_http)].method = "add_steps"
          /\ srv_http[Len(srv_http)].params.date = srv_request.arguments.date
          /\ srv_http[Len(srv_http)].params.count = srv_request.arguments.count
          /\ srv_http[Len(srv_http)].params.allow_overwrite =
               (IF srv_request.arguments.allow_overwrite = Absent THEN "false"
                ELSE srv_request.arguments.allow_overwrite)
          /\ (srv_http[Len(srv_http)].params.allow_overwrite = "true")
               <=> (srv_request.arguments.allow_overwrite = "true")

\* the bridge forwarded a call that asks for overwriting, and then one
\* with empty arguments, each as it came
C26_Witness ==
  /\ pc = "http_wait"
  /\ Len(http_log) = 2
  /\ http_log[1].arguments = ArgsOverwrite
  /\ request.params.arguments = "{}"
  /\ http_log[2].arguments = "{}"
  /\ http_log[2].name = "get_user_profile"

\* the number of HTTP requests made before call j of adm_calls
RECURSIVE AdmHttpBefore(_)
AdmHttpBefore(j) ==
  IF j <= 1 THEN 0 ELSE AdmHttpBefore(j - 1) + adm_calls[j - 1].made

\* among the first n requests there is a whole login: the POST of the magic
\* link, the GET of /auth/<token> and the GET of the CSRF token, each of
\* which went through
LoginCompletedIn(n) ==
  \E i \in 1..(n - 2) :
    /\ adm_http[i].path = "/send-magic-link" /\ adm_http[i].ok
    /\ adm_http[i + 1].path = "/auth/abc123" /\ adm_http[i + 1].ok
    /\ adm_http[i + 2].path = "/api/csrf-token" /\ adm_http[i + 2].ok

\* C27: in any sequence of calls on a StepChallengeAdmin, a call of
\* list_mcp_tokens, create_mcp_token or get_users that is not preceded by
\* a login_admin whose three requests all went through makes no HTTP
\* request and returns the error "Not authenticated as admin"; a
\* login_admin that returns False leaves csrf_token as it was, so unset as
\* long as no login went through.
C27_NoAdminCallBeforeLogin ==
  /\ Len(adm_http) = AdmHttpBefore(Len(adm_calls) + 1)
  /\ \A j \in 1..Len(adm_calls) :
       /\ (adm_calls[j].op \in AdminOps /\ ~LoginCompletedIn(AdmHttpBefore(j)))
            => (adm_calls[j].ret = NotAuthenticated /\ adm_calls[j].made = 0)
       /\ (adm_calls[j].op = "login_admin" /\ adm_calls[j].ret = "False")
            => adm_calls[j].csrf_after = adm_calls[j].csrf_before
  /\ ~LoginCompletedIn(Len(adm_http)) => adm_csrf = Null

\* a login that failed at the CSRF token, a create_mcp_token that was
\* rejected without a request, then a login that went through
C27_Witness ==
  /\ Len(adm_calls) = 3
  /\ adm_calls[1].op = "login_admin" /\ adm_calls[1].ret = "False"
  /\ adm_calls[1].made = 3
  /\ adm_calls[2].op = "create_mcp_token"
  /\ adm_calls[2].ret = NotAuthenticated /\ adm_calls[2].made = 0
  /\ adm_calls[3].op = "login_admin" /\ adm_calls[3].ret = "True"
  /\ adm_csrf = "csrf_1"

\* C28 as stated: after every login_admin that returned True csrf_token is
\* set, and an admin operation called next is not rejected with "Not
\* authenticated as admin".
C28_LoginTrueMeansAuthenticated ==
  \A j \in 1..Len(adm_calls) :
    (adm_calls[j].op = "login_admin" /\ adm_calls[j].ret = "True")
      => /\ ~Falsy(adm_calls[j].csrf_after)
         /\ (j < Len(adm_calls) /\ adm_calls[j + 1].op \in AdminOps)
              => adm_calls[j + 1].ret # NotAuthenticated

\* the arguments main passes to setup_claude_config in this run
SetupArgsAre(w) ==
  /\ w.token = ins_token
  /\ w.path = AbsoluteServerPath(ins_cwd)
  /\ w.url = ins_url

\* the checks of main that come before the call of setup_claude_config
\* went the way that lets the run go on
ChecksPassed ==
  /\ ins_facts.server = "yes"
  /\ ins_facts.deps = "yes"
  /\ ins_token \notin {Absent, ""}
  /\ \/ ins_facts.test = "yes"
     \/ ins_facts.test = "no" /\ ins_facts.retry = "y"

\* C29: a call of setup_claude_config on a configuration file that exists
\* and parses either writes nothing, or writes the document back with the
\* step-challenge entry of mcpServers set from its arguments and with every
\* other top-level key and every other entry of mcpServers as it was; it
\* never makes a backup of such a file; and a call on a file that the call
\* before wrote with the same token, server path and URL leaves the file
\* exactly as it is.
C29_SetupChangesOnlyStepChallenge ==
  [][(ins_pc = "setup" /\ ins_pc' # "setup" /\ cfg_file.state = "valid") =>
       /\ IF ins_ret' = "True"
          THEN /\ cfg_file'.state = "valid"
               /\ cfg_file'.top = cfg_file.top
               /\ cfg_file'.theme = cfg_file.theme
               /\ cfg_file'.servers = "object"
               /\ cfg_file'.other = cfg_file.other
               /\ cfg_file'.step =
                    StepChallengeEntry(ins_token, AbsoluteServerPath(ins_cwd), ins_url)
          ELSE cfg_file' = cfg_file
       /\ cfg_backup' = cfg_backup
       /\ SetupArgsAre(cfg_written) => cfg_file' = cfg_file]_vars

\* a second run has written, with the arguments of the first, a file that
\* had another top-level key and another server in it
C29_Witness ==
  /\ ins_ret = "True"
  /\ cfg_written.times = 2
  /\ cfg_file.theme = "dark"
  /\ cfg_file.other = "other_srv"
  /\ cfg_file.step = StepChallengeEntry("tok2", "/srv/step/mcp_server_anthropic.py",
                                         DefaultStepUrl)

\* C30: main reaches the call of setup_claude_config only when the server
\* file was found, the dependencies were installed, the token typed is not
\* empty, and the connection test passed or the answer to "Continue with
\* setup anyway?" was y; and neither the configuration file nor its backup
\* changes at any other statement of main.
C30_ConfigWrittenOnlyAfterChecks ==
  /\ [](ins_pc \in {"setup", "offer_direct_test"} => ChecksPassed)
  /\ [][(cfg_file' # cfg_file \/ cfg_backup' # cfg_backup \/ cfg_written' # cfg_written)
         => (ins_pc = "setup" /\ ChecksPassed)]_vars

\* the connection test failed, the answer was y, and the file was written
C30_Witness ==
  /\ ins_pc = "offer_direct_test"
  /\ ins_ret = "True"
  /\ ins_facts.test = "no"
  /\ ins_facts.retry = "y"
  /\ cfg_written.times = 1
  /\ cfg_file.step = StepChallengeEntry(ins_token, AbsoluteServerPath(ins_cwd), ins_url)

====
